---- MODULE Spec2Model ----
(***************************************************************************)
(* Model of the test-case generator MCP server (src/index.js): the input   *)
(* normaliser, the identifier minter, the case synthesiser, the output     *)
(* validator and the generate_test_cases tool handler; and of the server   *)
(* that adds requirement-file reading, spreadsheet export and automation   *)
(* code to the same core (src/unnamed/part_001).                           *)
(*                                                                         *)
(* JavaScript values are modelled as tagged records [k |-> kind, v |->     *)
(* payload]; strings are TLA+ strings handled character by character;      *)
(* objects are ordered sequences of <<key, value>> pairs (property order   *)
(* is insertion order, as in the engine); a raised exception is the value  *)
(* of kind "throw" carrying the error message.                             *)
(***************************************************************************)
EXTENDS Integers, Sequences, FiniteSets, TLC

\* calls[c]: the tool invocation c as the handler sees it: its position,
\* the request's tool name and arguments, the handler's locals
\* (normalizedInput, testCases, validation; baseId is the local of
\* generateTestCases) and the result handed back to the transport
VARIABLES calls,
\* server[c]: the tool invocation c as the handler of the server with file
\* tools, spreadsheet export and automation code sees it
          server,
\* files[path]: the spreadsheets the server has written to the file system
          files

vars == <<calls, server, files>>

-----------------------------------------------------------------------------
(* JavaScript values *)

StrV(s) == [k |-> "string", v |-> s]

NumV(n) == [k |-> "number", v |-> n]

BoolV(b) == [k |-> "boolean", v |-> b]

NullV == [k |-> "null", v |-> 0]

UndefV == [k |-> "undefined", v |-> 0]

ObjV(pairs) == [k |-> "object", v |-> pairs]

ArrV(elems) == [k |-> "array", v |-> elems]

Throw(msg) == [k |-> "throw", v |-> msg]

IsThrow(x) == x.k = "throw"

\* typeof value
TypeOf(x) == IF x.k \in {"null", "object", "array"} THEN "object" ELSE x.k

\* ToBoolean(value), as used by &&, || and if
Truthy(x) ==
  CASE x.k = "string" -> x.v # ""
    [] x.k = "number" -> x.v # 0
    [] x.k = "boolean" -> x.v
    [] x.k \in {"null", "undefined"} -> FALSE
    [] OTHER -> TRUE

\* a || b
Or(a, b) == IF Truthy(a) THEN a ELSE b

HasKey(o, key) == o.k = "object" /\ \E i \in 1..Len(o.v) : o.v[i][1] = key

\* value.key for a value that is neither null nor undefined: own property
\* of an object, undefined on anything else (none of the keys read by the
\* program is a property of a string, number, boolean or array)
Get(o, key) ==
  IF HasKey(o, key)
  THEN o.v[CHOOSE i \in 1..Len(o.v) : o.v[i][1] = key][2]
  ELSE UndefV

-----------------------------------------------------------------------------
(* Strings *)

Ch(s, i) == SubSeq(s, i, i)

LowerLetters == "abcdefghijklmnopqrstuvwxyz"

UpperLetters == "ABCDEFGHIJKLMNOPQRSTUVWXYZ"

Digits == "0123456789"

CharsOf(s) == {Ch(s, i) : i \in 1..Len(s)}

\* [a-zA-Z0-9]
AlnumChars == CharsOf(LowerLetters) \cup CharsOf(UpperLetters) \cup CharsOf(Digits)

\* \w
WordChars == AlnumChars \cup {"_"}

UpperTable ==
  [c \in CharsOf(LowerLetters) |->
     Ch(UpperLetters, CHOOSE i \in 1..26 : Ch(LowerLetters, i) = c)]

LowerTable ==
  [c \in CharsOf(UpperLetters) |->
     Ch(LowerLetters, CHOOSE i \in 1..26 : Ch(UpperLetters, i) = c)]

RECURSIVE MapChars(_, _, _, _)
\* the characters lo..hi of s, each replaced by F of it (by halves, to keep
\* the evaluation shallow)
MapChars(F(_), s, lo, hi) ==
  IF lo > hi THEN ""
  ELSE IF lo = hi THEN F(Ch(s, lo))
  ELSE MapChars(F, s, lo, (lo + hi) \div 2)
       \o MapChars(F, s, ((lo + hi) \div 2) + 1, hi)

\* String.prototype.toUpperCase
ToUpperCase(s) ==
  MapChars(LAMBDA c : IF c \in DOMAIN UpperTable THEN UpperTable[c] ELSE c,
           s, 1, Len(s))

\* String.prototype.toLowerCase
ToLowerCase(s) ==
  MapChars(LAMBDA c : IF c \in DOMAIN LowerTable THEN LowerTable[c] ELSE c,
           s, 1, Len(s))

\* String.prototype.includes
Includes(s, w) ==
  \E i \in 1..(Len(s) - Len(w) + 1) : SubSeq(s, i, i + Len(w) - 1) = w

RECURSIVE Join(_, _)
\* Array.prototype.join on an array of strings
Join(seq, sep) ==
  IF Len(seq) = 0 THEN ""
  ELSE IF Len(seq) = 1 THEN seq[1]
  ELSE seq[1] \o sep \o Join(Tail(seq), sep)

RECURSIVE DigitsOf(_)
DigitsOf(n) ==
  IF n < 10 THEN Ch(Digits, n + 1)
  ELSE DigitsOf(n \div 10) \o Ch(Digits, (n % 10) + 1)

\* Number to string, integers only
NumToStr(n) == IF n < 0 THEN "-" \o DigitsOf(0 - n) ELSE DigitsOf(n)

-----------------------------------------------------------------------------
(* Library conversions *)

\* a character of a string inside JSON text
EscapeChar(c) ==
  IF c = "\"" THEN "\\\"" ELSE IF c = "\\" THEN "\\\\" ELSE c

\* the quoted form of a string in JSON text
Quote(s) == "\"" \o MapChars(EscapeChar, s, 1, Len(s)) \o "\""

RECURSIVE JSONStringify(_)
\* JSON.stringify(value) without indentation, as a string; properties whose
\* value is undefined are skipped, undefined array elements print as null
JSONStringify(x) ==
  CASE x.k = "string" -> Quote(x.v)
    [] x.k = "number" -> NumToStr(x.v)
    [] x.k = "boolean" -> (IF x.v THEN "true" ELSE "false")
    [] x.k = "null" -> "null"
    [] x.k = "undefined" -> "null"
    [] x.k = "array" ->
         "[" \o Join([i \in 1..Len(x.v) |-> JSONStringify(x.v[i])], ",") \o "]"
    [] x.k = "object" ->
         LET kept == SelectSeq(x.v, LAMBDA p : p[2].k # "undefined")
         IN "{" \o Join([i \in 1..Len(kept) |->
                          Quote(kept[i][1]) \o ":" \o JSONStringify(kept[i][2])],
                        ",") \o "}"

RECURSIVE ToStringJS(_)
\* String(value)
ToStringJS(x) ==
  CASE x.k = "string" -> x.v
    [] x.k = "number" -> NumToStr(x.v)
    [] x.k = "boolean" -> (IF x.v THEN "true" ELSE "false")
    [] x.k = "null" -> "null"
    [] x.k = "undefined" -> "undefined"
    [] x.k = "object" -> "[object Object]"
    [] x.k = "array" ->
         Join([i \in 1..Len(x.v) |->
                 IF x.v[i].k \in {"null", "undefined"} THEN ""
                 ELSE ToStringJS(x.v[i])], ",")

-----------------------------------------------------------------------------
(* Inputs of the tool: the values a caller can pass as arguments.input *)

\* largest number of fields of the enumerated request mappings
MaxFields == 1

StoryText == "As a user I want to login so that I can access dashboard"

RawText == "Login functionality with username and password validation"

LoginRequest ==
  ObjV(<<<<"username", StrV("string")>>, <<"password", StrV("string")>>>>)

MixedRequest ==
  ObjV(<<<<"name", StrV("Bob")>>, <<"age", NumV(30)>>, <<"active", BoolV(TRUE)>>,
         <<"note", NullV>>, <<"address", ObjV(<<<<"city", StrV("Hue")>>>>)>>,
         <<"tags", ArrV(<<StrV("a"), NumV(1)>>)>>>>)

FieldKeys == <<"username", "password", "age">>

SampleValues ==
  {StrV("string"), NumV(7), BoolV(FALSE), NullV,
   ObjV(<<<<"city", StrV("Hue")>>>>), ArrV(<<StrV("a")>>)}

\* every request mapping over the first n field keys
RequestsOfSize(n) ==
  {ObjV([i \in 1..n |-> <<FieldKeys[i], f[i]>>]) : f \in [1..n -> SampleValues]}

Requests ==
  UNION {RequestsOfSize(n) : n \in 0..MaxFields} \cup {LoginRequest, MixedRequest}

EndpointOpts ==
  {<<>>, <<<<"endpoint", StrV("/login")>>>>, <<<<"endpoint", StrV("")>>>>}

MethodOpts == {<<>>, <<<<"method", StrV("POST")>>>>}

StoryOpts ==
  {<<>>, <<<<"user", StrV("admin")>>>>, <<<<"soThat", StrV("I can view reports")>>>>,
   <<<<"story", StrV("")>>>>}

\* objects without a type tag, by the fields the classifier looks at
UntaggedObjects ==
  {ObjV(e \o m \o u) : e \in EndpointOpts, m \in MethodOpts, u \in StoryOpts}
  \cup {ObjV(<<<<"story", StrV("I want to update my profile")>>>>),
        ObjV(<<<<"as", StrV("admin")>>, <<"content", StrV("delete old orders")>>>>),
        ObjV(<<<<"iWant", StrV("to search products")>>,
               <<"userStory", StrV("I want to search products")>>>>),
        ObjV(<<<<"user", StrV("admin")>>, <<"story", NumV(5)>>>>),
        ObjV(<<<<"title", StrV("Payment processing and storage")>>>>),
        ObjV(<<<<"endpoint", NumV(5)>>, <<"method", StrV("GET")>>>>),
        ObjV(<<<<"endpoint", StrV("/api/v1/users")>>, <<"method", StrV("GET")>>,
               <<"parameters", ObjV(<<<<"page", NumV(1)>>>>)>>,
               <<"response", ObjV(<<<<"users", ArrV(<<>>)>>>>)>>>>),
        ObjV(<<<<"nested", ObjV(<<<<"endpoint", StrV("/login")>>,
                                  <<"method", StrV("POST")>>>>)>>>>)}

\* API specifications with every enumerated request mapping
ApiSpecs ==
  {ObjV(<<<<"endpoint", StrV("/login")>>, <<"method", StrV("POST")>>,
          <<"request", r>>>>) : r \in Requests}

\* objects that already carry a type tag
TaggedObjects ==
  {ObjV(<<<<"type", StrV("user_story")>>, <<"content", StrV(StoryText)>>>>),
   ObjV(<<<<"type", StrV("raw_text")>>, <<"content", StrV("12")>>>>),
   ObjV(<<<<"type", StrV("raw_text")>>, <<"content", StrV("")>>>>),
   ObjV(<<<<"type", StrV("raw_text")>>, <<"content", StrV("{}")>>>>),
   ObjV(<<<<"type", StrV("user_story")>>, <<"content", StrV("to do it")>>>>),
   ObjV(<<<<"type", StrV("api")>>, <<"endpoint", StrV("/login")>>,
          <<"method", StrV("POST")>>, <<"request", LoginRequest>>>>),
   ObjV(<<<<"type", StrV("api")>>, <<"endpoint", StrV("/users/1")>>,
          <<"method", StrV("GET")>>>>),
   ObjV(<<<<"type", StrV("user_story")>>, <<"content", StrV(StoryText)>>,
          <<"endpoint", StrV("/login")>>, <<"method", StrV("POST")>>>>),
   ObjV(<<<<"type", StrV("foo")>>>>),
   ObjV(<<<<"type", StrV("foo")>>, <<"endpoint", StrV("/login")>>,
          <<"method", StrV("POST")>>>>),
   ObjV(<<<<"type", StrV("api")>>>>),
   ObjV(<<<<"type", StrV("user_story")>>>>),
   ObjV(<<<<"type", StrV("user_story")>>,
          <<"content", StrV("View reports and Create orders")>>>>),
   ObjV(<<<<"type", StrV("raw_text")>>,
          <<"content", StrV("STORAGE quota before Validation")>>>>)}

\* the JSON values whose text is given as a string input
ParseDomain ==
  {NumV(12), ObjV(<<>>), NullV, BoolV(TRUE), StrV("login"), ArrV(<<NumV(1)>>),
   ObjV(<<<<"endpoint", StrV("/login")>>, <<"method", StrV("POST")>>,
          <<"request", LoginRequest>>>>),
   ObjV(<<<<"user", StrV("admin")>>,
          <<"story", StrV("As an admin I want to delete users")>>>>),
   ObjV(<<<<"type", StrV("foo")>>, <<"endpoint", StrV("/login")>>,
          <<"method", StrV("POST")>>>>),
   ObjV(<<<<"type", StrV("bar")>>>>)}

\* strings that are not JSON text
PlainTexts == {StoryText, RawText, "", "ab cd", "View the \"storage\" display"}

StringInputs ==
  {StrV(s) : s \in PlainTexts} \cup {StrV(JSONStringify(x)) : x \in ParseDomain}

Inputs ==
  StringInputs \cup UntaggedObjects \cup ApiSpecs \cup TaggedObjects
  \cup {NullV, UndefV, NumV(5), NumV(0), BoolV(TRUE), ArrV(<<>>)}

\* the values of ParseDomain whose JSON text is s
ParsesOf(s) == {x \in ParseDomain : JSONStringify(x) = s}

\* the value of a non-empty set of values, else the exception
ValueOrThrow(found, msg) == IF found = {} THEN Throw(msg) ELSE CHOOSE x \in found : TRUE

\* JSON.parse(text): the value whose JSON text it is, a SyntaxError for a
\* string that is not JSON text (PlainTexts)
JSONParse(s) == ValueOrThrow(ParsesOf(s), "Unexpected token in JSON")

-----------------------------------------------------------------------------
(* Input normalisation *)

IsStr(x, s) == x.k = "string" /\ x.v = s

RawTextRecord(content) ==
  ObjV(<<<<"type", StrV("raw_text")>>, <<"content", content>>>>)

\* IsApiSpec with || in place of &&
IsApiSpec_EitherField(parsed) ==
  Truthy(Get(parsed, "endpoint")) \/ Truthy(Get(parsed, "method"))

\* parsed.endpoint && parsed.method
IsApiSpec(parsed) ==
  Truthy(Get(parsed, "endpoint")) /\ Truthy(Get(parsed, "method"))

\* parsed.user || parsed.story || parsed.as || parsed.iWant || parsed.soThat
IsUserStory(parsed) ==
  \/ Truthy(Get(parsed, "user")) \/ Truthy(Get(parsed, "story"))
  \/ Truthy(Get(parsed, "as")) \/ Truthy(Get(parsed, "iWant"))
  \/ Truthy(Get(parsed, "soThat"))

\* the detection of the input type on the parsed value: the record
\* returned, or the exception of a property read on null or undefined
Classify(parsed) ==
  IF parsed.k \in {"null", "undefined"}
  THEN Throw("Cannot read properties of " \o parsed.k \o " (reading 'endpoint')")
  ELSE IF IsApiSpec(parsed)
  THEN ObjV(<<<<"type", StrV("api")>>,
              <<"endpoint", Get(parsed, "endpoint")>>,
              <<"method", Get(parsed, "method")>>,
              <<"request", Or(Or(Get(parsed, "request"),
                                 Get(parsed, "parameters")), ObjV(<<>>))>>,
              <<"response", Or(Get(parsed, "response"), ObjV(<<>>))>>>>)
  ELSE IF IsUserStory(parsed)
  THEN ObjV(<<<<"type", StrV("user_story")>>,
              <<"content",
                IF parsed.k = "string" THEN parsed
                ELSE Or(Or(Or(Get(parsed, "userStory"), Get(parsed, "story")),
                           Get(parsed, "content")),
                        StrV(JSONStringify(parsed)))>>>>)
  ELSE RawTextRecord(IF parsed.k = "string" THEN parsed
                     ELSE StrV(JSONStringify(parsed)))

\* the inner try/catch: the parse result, or the wrapper when parsing failed
ParsedOrRaw(result, input) ==
  IF IsThrow(result) THEN ObjV(<<<<"raw", input>>>>) ELSE result

\* the try block of normalizeInput: the record it returns, or the exception
\* it raises
NormalizeInputTry(input) ==
  IF input.k = "null" THEN Throw("Cannot read properties of null (reading 'type')")
  ELSE IF TypeOf(input) = "object" /\ Truthy(Get(input, "type")) THEN input
  ELSE IF input.k = "string" THEN Classify(ParsedOrRaw(JSONParse(input.v), input))
  ELSE Classify(input)

\* the outer catch: the fallback record when the try block raised
CatchAsRawText(result, input) ==
  IF IsThrow(result) THEN RawTextRecord(StrV(ToStringJS(input))) ELSE result

\* normalizeInput without the outer try/catch
normalizeInput_NoCatch(input) == NormalizeInputTry(input)

normalizeInput(input) == CatchAsRawText(NormalizeInputTry(input), input)

-----------------------------------------------------------------------------
(* Identifier minting *)

\* s.replace(/[^a-zA-Z0-9]/g, '_')
ReplaceNonAlnum(s) ==
  MapChars(LAMBDA c : IF c \in AlnumChars THEN c ELSE "_", s, 1, Len(s))

\* a run of word characters starts at i
WordStart(s, i) ==
  Ch(s, i) \in WordChars /\ (i = 1 \/ Ch(s, i - 1) \notin WordChars)

\* the last position of the run of word characters that starts at i
WordEnd(s, i) ==
  CHOOSE j \in i..Len(s) :
    /\ \A m \in i..j : Ch(s, m) \in WordChars
    /\ (j = Len(s) \/ Ch(s, j + 1) \notin WordChars)

\* s.match(/\b\w{3,}\b/g) || []: the maximal runs of word characters of
\* length at least 3, in order
MatchWords(s) ==
  LET starts == SelectSeq([i \in 1..Len(s) |-> i],
                          LAMBDA i : WordStart(s, i) /\ WordEnd(s, i) - i + 1 >= 3)
  IN [n \in 1..Len(starts) |-> SubSeq(s, starts[n], WordEnd(s, starts[n]))]

\* TC_ and the first three words, uppercased, joined by '_'
WordsId(words) ==
  "TC_" \o Join([i \in 1..(IF Len(words) < 3 THEN Len(words) ELSE 3) |->
                  ToUpperCase(words[i])], "_")

\* the id of an api record from its endpoint
EndpointId(endpoint) ==
  IF endpoint.k = "string"
  THEN StrV("TC_" \o ToUpperCase(ReplaceNonAlnum(endpoint.v)))
  ELSE IF endpoint.k \in {"null", "undefined"}
  THEN Throw("Cannot read properties of " \o endpoint.k \o " (reading 'replace')")
  ELSE Throw("input.endpoint.replace is not a function")

\* the id of a user_story or raw_text record from content, input.content || ''
ContentId(content) ==
  IF content.k # "string"
  THEN Throw("content.match is not a function")
  ELSE Or(StrV(WordsId(MatchWords(content.v))), StrV("TC_GENERIC"))

generateBaseId(input) ==
  IF IsStr(Get(input, "type"), "api")
  THEN EndpointId(Get(input, "endpoint"))
  ELSE ContentId(Or(Get(input, "content"), StrV("")))

-----------------------------------------------------------------------------
(* Test data derivation *)

\* QA_ASSUMPTIONS.string.maxLength
StringMaxLength == 255

\* QA_ASSUMPTIONS.number.max
NumberMax == 999999

\* QA_ASSUMPTIONS.number.min
NumberMin == 0

RECURSIVE Repeat(_, _)
\* String.prototype.repeat
Repeat(s, n) ==
  IF n = 0 THEN ""
  ELSE Repeat(s, n \div 2) \o Repeat(s, n \div 2) \o (IF n % 2 = 1 THEN s ELSE "")

\* Object.entries(value): own enumerable properties, in order; index keys
\* for arrays and strings, none for other primitives
Entries(x) ==
  CASE x.k = "object" -> x.v
    [] x.k = "array" -> [i \in 1..Len(x.v) |-> <<NumToStr(i - 1), x.v[i]>>]
    [] x.k = "string" -> [i \in 1..Len(x.v) |-> <<NumToStr(i - 1), StrV(Ch(x.v, i))>>]
    [] OTHER -> <<>>

getInvalidTestData(request) ==
  LET changed == SelectSeq(Entries(request),
                           LAMBDA p : p[2].k \in {"string", "number", "boolean"})
  IN ObjV([i \in 1..Len(changed) |->
             <<changed[i][1],
               CASE changed[i][2].k = "string" -> NumV(123)
                 [] changed[i][2].k = "number" -> StrV("not_a_number")
                 [] changed[i][2].k = "boolean" -> StrV("not_a_boolean")>>])

\* getBoundaryTestData with the type argument ignored: maximum values for
\* both boundary cases
getBoundaryTestData_AlwaysMax(request, type) ==
  LET changed == SelectSeq(Entries(request),
                           LAMBDA p : p[2].k \in {"string", "number"})
  IN ObjV([i \in 1..Len(changed) |->
             <<changed[i][1],
               IF changed[i][2].k = "string"
               THEN StrV(Repeat("a", StringMaxLength))
               ELSE NumV(NumberMax)>>])

getBoundaryTestData(request, type) ==
  LET changed == SelectSeq(Entries(request),
                           LAMBDA p : p[2].k \in {"string", "number"})
  IN ObjV([i \in 1..Len(changed) |->
             <<changed[i][1],
               IF changed[i][2].k = "string"
               THEN (IF type = "max" THEN StrV(Repeat("a", StringMaxLength))
                     ELSE StrV("a"))
               ELSE (IF type = "max" THEN NumV(NumberMax) ELSE NumV(NumberMin))>>])

\* getEdgeTestData keeping only the string-valued keys in the special case
getEdgeTestData_StringsOnly(request, type) ==
  LET entries == Entries(request)
      strings == SelectSeq(Entries(request), LAMBDA p : p[2].k = "string")
  IN IF type = "null"
     THEN ObjV([i \in 1..Len(entries) |-> <<entries[i][1], NullV>>])
     ELSE IF type = "special"
     THEN ObjV([i \in 1..Len(strings) |->
                  <<strings[i][1], StrV("!@#$%^&*()_+-=[]{}|;:,.<>?")>>])
     ELSE ObjV(<<>>)

getEdgeTestData(request, type) ==
  LET entries == Entries(request)
  IN IF type = "null"
     THEN ObjV([i \in 1..Len(entries) |-> <<entries[i][1], NullV>>])
     ELSE IF type = "special"
     THEN ObjV([i \in 1..Len(entries) |->
                  <<entries[i][1],
                    IF entries[i][2].k = "string"
                    THEN StrV("!@#$%^&*()_+-=[]{}|;:,.<>?")
                    ELSE entries[i][2]>>])
     ELSE ObjV(<<>>)

-----------------------------------------------------------------------------
(* Keyword extraction *)

actionWords ==
  <<"login", "register", "create", "update", "delete", "submit", "save",
    "search", "view", "access">>

featureWords ==
  <<"authentication", "authorization", "validation", "processing", "display",
    "storage", "communication">>

\* the position at which word first occurs in text
FirstIndex(text, word) ==
  CHOOSE i \in 1..Len(text) :
    /\ SubSeq(text, i, i + Len(word) - 1) = word
    /\ \A j \in 1..(i - 1) : SubSeq(text, j, j + Len(word) - 1) # word

\* FirstIncluded by position in the text: the word that occurs earliest
FirstIncluded_ByPosition(words, text, default) ==
  IF \E i \in 1..Len(words) : Includes(text, words[i])
  THEN words[CHOOSE i \in 1..Len(words) :
               /\ Includes(text, words[i])
               /\ \A j \in 1..Len(words) :
                    (j # i /\ Includes(text, words[j])) =>
                      FirstIndex(text, words[i]) < FirstIndex(text, words[j])]
  ELSE default

\* the first word of the list that the text includes, else the default
FirstIncluded(words, text, default) ==
  IF \E i \in 1..Len(words) : Includes(text, words[i])
  THEN words[CHOOSE i \in 1..Len(words) :
               /\ Includes(text, words[i])
               /\ \A j \in 1..(i - 1) : ~Includes(text, words[j])]
  ELSE default

\* content is a JavaScript value; toLowerCase exists on strings only
extractMainAction(content) ==
  IF content.k \in {"null", "undefined"}
  THEN Throw("Cannot read properties of " \o content.k \o " (reading 'toLowerCase')")
  ELSE IF content.k # "string"
  THEN Throw("content.toLowerCase is not a function")
  ELSE StrV(FirstIncluded(actionWords, ToLowerCase(content.v), "perform action"))

extractMainFeature(content) ==
  IF content.k \in {"null", "undefined"}
  THEN Throw("Cannot read properties of " \o content.k \o " (reading 'toLowerCase')")
  ELSE IF content.k # "string"
  THEN Throw("content.toLowerCase is not a function")
  ELSE StrV(FirstIncluded(featureWords, ToLowerCase(content.v), "feature"))

-----------------------------------------------------------------------------
(* Case synthesis *)

\* an array of strings
StrArray(seq) == ArrV([i \in 1..Len(seq) |-> StrV(seq[i])])

\* TestCase with the type of every case written as positive
TestCase_PositiveType(id, title, type, precondition, steps, expected, testData, priority) ==
  ObjV(<<<<"id", StrV(id)>>, <<"title", StrV(title)>>, <<"type", StrV("positive")>>,
         <<"precondition", StrV(precondition)>>, <<"steps", StrArray(steps)>>,
         <<"expected_result", StrV(expected)>>, <<"test_data", testData>>,
         <<"priority", StrV(priority)>>>>)

\* a test case object literal, its eight properties in source order
TestCase(id, title, type, precondition, steps, expected, testData, priority) ==
  ObjV(<<<<"id", StrV(id)>>, <<"title", StrV(title)>>, <<"type", StrV(type)>>,
         <<"precondition", StrV(precondition)>>, <<"steps", StrArray(steps)>>,
         <<"expected_result", StrV(expected)>>, <<"test_data", testData>>,
         <<"priority", StrV(priority)>>>>)

\* TestCaseSet with the edge cases pushed onto the boundary section
TestCaseSet_EdgeIntoBoundary(positive, negative, boundary, edge) ==
  ObjV(<<<<"positive", ArrV(positive)>>, <<"negative", ArrV(negative)>>,
         <<"boundary", ArrV(boundary \o edge)>>, <<"edge", ArrV(<<>>)>>>>)

\* the testCases object: four sections in the order of the literal
TestCaseSet(positive, negative, boundary, edge) ==
  ObjV(<<<<"positive", ArrV(positive)>>, <<"negative", ArrV(negative)>>,
         <<"boundary", ArrV(boundary)>>, <<"edge", ArrV(edge)>>>>)

Scenario(name) == ObjV(<<<<"scenario", StrV(name)>>>>)

\* the seven cases of generateApiTestCases, from the endpoint and method as
\* interpolated in the templates, the request and the base id
ApiTestCases(endpoint, method, request, id) ==
     TestCaseSet(
       <<TestCase(id \o "_POS_001",
                  method \o " " \o endpoint \o " with valid request",
                  "positive",
                  "API endpoint " \o endpoint \o " is available and accessible",
                  <<"Prepare valid request data for " \o endpoint,
                    "Send " \o method \o " request to " \o endpoint,
                    "Verify response status is 200",
                    "Verify response structure matches expected format">>,
                  "API returns 200 status with valid response data",
                  request, "High")>>,
       <<TestCase(id \o "_NEG_001",
                  method \o " " \o endpoint \o " with missing required fields",
                  "negative",
                  "API endpoint " \o endpoint \o " is available",
                  <<"Send " \o method \o " request to " \o endpoint
                      \o " without required fields",
                    "Verify response status is 400",
                    "Verify error message indicates missing required fields">>,
                  "API returns 400 status with validation error",
                  ObjV(<<>>), "High"),
         TestCase(id \o "_NEG_002",
                  method \o " " \o endpoint \o " with invalid data format",
                  "negative",
                  "API endpoint " \o endpoint \o " is available",
                  <<"Send " \o method \o " request to " \o endpoint
                      \o " with invalid data types",
                    "Verify response status is 400",
                    "Verify error message indicates invalid format">>,
                  "API returns 400 status with format validation error",
                  getInvalidTestData(request), "Medium")>>,
       <<TestCase(id \o "_BND_001",
                  method \o " " \o endpoint \o " with maximum length values",
                  "boundary",
                  "API endpoint " \o endpoint \o " is available",
                  <<"Send " \o method \o " request to " \o endpoint
                      \o " with max length string values",
                    "Verify response status is 200",
                    "Verify data is processed correctly">>,
                  "API processes max length values successfully",
                  getBoundaryTestData(request, "max"), "Medium"),
         TestCase(id \o "_BND_002",
                  method \o " " \o endpoint \o " with minimum length values",
                  "boundary",
                  "API endpoint " \o endpoint \o " is available",
                  <<"Send " \o method \o " request to " \o endpoint
                      \o " with min length values",
                    "Verify response status is 200",
                    "Verify data is processed correctly">>,
                  "API processes min length values successfully",
                  getBoundaryTestData(request, "min"), "Medium")>>,
       <<TestCase(id \o "_EDGE_001",
                  method \o " " \o endpoint \o " with null values",
                  "edge",
                  "API endpoint " \o endpoint \o " is available",
                  <<"Send " \o method \o " request to " \o endpoint
                      \o " with null values for optional fields",
                    "Verify response status is 200",
                    "Verify null values are handled appropriately">>,
                  "API handles null values without errors",
                  getEdgeTestData(request, "null"), "Low"),
         TestCase(id \o "_EDGE_002",
                  method \o " " \o endpoint \o " with special characters",
                  "edge",
                  "API endpoint " \o endpoint \o " is available",
                  <<"Send " \o method \o " request to " \o endpoint
                      \o " with special characters",
                    "Verify response status is 200",
                    "Verify special characters are processed correctly">>,
                  "API handles special characters appropriately",
                  getEdgeTestData(request, "special"), "Low")>>)

generateApiTestCases(apiInput, baseId) ==
  ApiTestCases(ToStringJS(Get(apiInput, "endpoint")),
               ToStringJS(Get(apiInput, "method")),
               Or(Get(apiInput, "request"), ObjV(<<>>)), baseId.v)

\* the four cases of generateUserStoryTestCases from the extracted main
\* action, or the exception of the extraction
UserStoryTestCases(mainAction, id) ==
     IF IsThrow(mainAction) THEN mainAction
     ELSE TestCaseSet(
       <<TestCase(id \o "_POS_001", "Happy path - " \o mainAction.v, "positive",
                  "User has valid credentials and necessary permissions",
                  <<"Navigate to the relevant page",
                    "Perform " \o mainAction.v \o " with valid data",
                    "Verify the action completes successfully",
                    "Verify expected outcome is achieved">>,
                  "User can " \o mainAction.v \o " and see expected result",
                  Scenario("happy_path"), "High")>>,
       <<TestCase(id \o "_NEG_001", "Invalid input - " \o mainAction.v, "negative",
                  "User is on the relevant page",
                  <<"Enter invalid or missing required information",
                    "Attempt to complete the action",
                    "Verify validation error messages appear",
                    "Verify action cannot be completed">>,
                  "System displays appropriate error messages and prevents invalid action",
                  Scenario("invalid_input"), "High")>>,
       <<TestCase(id \o "_BND_001", "Maximum limits - " \o mainAction.v, "boundary",
                  "User is on the relevant page",
                  <<"Enter data at maximum allowed limits",
                    "Attempt to complete the action",
                    "Verify system handles maximum limits correctly",
                    "Verify action completes or shows appropriate limit message">>,
                  "System handles maximum boundary values appropriately",
                  Scenario("max_limits"), "Medium")>>,
       <<TestCase(id \o "_EDGE_001", "Concurrent access - " \o mainAction.v, "edge",
                  "Multiple users have access to the system",
                  <<"Multiple users attempt the same action simultaneously",
                    "Verify system handles concurrent requests",
                    "Verify data integrity is maintained",
                    "Verify all users receive appropriate responses">>,
                  "System maintains data integrity under concurrent access",
                  Scenario("concurrent_access"), "Low")>>)

generateUserStoryTestCases(storyInput, baseId) ==
  UserStoryTestCases(extractMainAction(Get(storyInput, "content")), baseId.v)

\* the four cases of generateRawTextTestCases from the extracted main
\* feature, or the exception of the extraction
RawTextTestCases(mainFeature, id) ==
     IF IsThrow(mainFeature) THEN mainFeature
     ELSE TestCaseSet(
       <<TestCase(id \o "_POS_001", "Basic functionality - " \o mainFeature.v,
                  "positive",
                  "System is available and user has necessary access",
                  <<"Access the feature/function",
                    "Perform basic operation with valid inputs",
                    "Verify the operation completes successfully",
                    "Verify expected output is displayed">>,
                  "Feature works correctly with valid inputs",
                  Scenario("basic_functionality"), "High")>>,
       <<TestCase(id \o "_NEG_001", "Error handling - " \o mainFeature.v,
                  "negative",
                  "User is accessing the feature",
                  <<"Provide invalid or missing inputs",
                    "Attempt to execute the operation",
                    "Verify appropriate error messages are shown",
                    "Verify system remains stable">>,
                  "System handles errors gracefully with clear error messages",
                  Scenario("error_handling"), "High")>>,
       <<TestCase(id \o "_BND_001", "Limit testing - " \o mainFeature.v,
                  "boundary",
                  "User is accessing the feature",
                  <<"Test with minimum allowed values",
                    "Test with maximum allowed values",
                    "Verify system behavior at boundaries",
                    "Verify no crashes or unexpected behavior">>,
                  "System behaves correctly at boundary values",
                  Scenario("boundary_testing"), "Medium")>>,
       <<TestCase(id \o "_EDGE_001", "Stress testing - " \o mainFeature.v, "edge",
                  "System is under normal load",
                  <<"Execute multiple operations rapidly",
                    "Verify system response time",
                    "Verify system stability under load",
                    "Verify data integrity is maintained">>,
                  "System maintains performance and stability under stress",
                  Scenario("stress_testing"), "Low")>>)

generateRawTextTestCases(textInput, baseId) ==
  RawTextTestCases(extractMainFeature(Get(textInput, "content")), baseId.v)

\* the switch of generateTestCases on the type tag, the base id being
\* minted (or its exception raised) before
GenerateByType(normalizedInput, baseId) ==
  CASE IsThrow(baseId) -> baseId
    [] IsStr(Get(normalizedInput, "type"), "api") ->
         generateApiTestCases(normalizedInput, baseId)
    [] IsStr(Get(normalizedInput, "type"), "user_story") ->
         generateUserStoryTestCases(normalizedInput, baseId)
    [] IsStr(Get(normalizedInput, "type"), "raw_text") ->
         generateRawTextTestCases(normalizedInput, baseId)
    [] OTHER ->
         Throw("Unsupported input type: " \o ToStringJS(Get(normalizedInput, "type")))

generateTestCases(normalizedInput) ==
  GenerateByType(normalizedInput, generateBaseId(normalizedInput))

-----------------------------------------------------------------------------
(* Output validation *)

requiredSections == <<"positive", "negative", "boundary", "edge">>

requiredFields ==
  <<"id", "title", "type", "precondition", "steps", "expected_result",
    "test_data", "priority">>

FieldNames == {requiredFields[i] : i \in 1..Len(requiredFields)}

RECURSIVE Flatten(_)
\* the concatenation of a sequence of sequences
Flatten(seqs) ==
  IF Len(seqs) = 0 THEN <<>> ELSE Head(seqs) \o Flatten(Tail(seqs))

\* SectionErrors with the minimum of 3 cases written as 1
SectionErrors_MinOne(testCases, section) ==
  IF ~Truthy(Get(testCases, section)) \/ Get(testCases, section).k # "array"
  THEN <<"Missing or invalid section: " \o section>>
  ELSE IF Len(Get(testCases, section).v) < 1
  THEN <<"Section " \o section \o " has less than 3 test cases">>
  ELSE <<>>

\* first loop of validateOutput: the error of one required section, if any
SectionErrors(testCases, section) ==
  IF ~Truthy(Get(testCases, section)) \/ Get(testCases, section).k # "array"
  THEN <<"Missing or invalid section: " \o section>>
  ELSE IF Len(Get(testCases, section).v) < 3
  THEN <<"Section " \o section \o " has less than 3 test cases">>
  ELSE <<>>

\* StepsEmpty with fewer than five steps counted as none
StepsEmpty_UnderFive(testCase) ==
  LET steps == Get(testCase, "steps")
  IN \/ ~Truthy(steps)
     \/ steps.k = "array" /\ Len(steps.v) < 5

\* !testCase.steps || testCase.steps.length === 0
StepsEmpty(testCase) ==
  LET steps == Get(testCase, "steps")
  IN \/ ~Truthy(steps)
     \/ steps.k = "array" /\ Len(steps.v) = 0
     \/ steps.k = "object" /\ Get(steps, "length").k = "number"
                           /\ Get(steps, "length").v = 0

\* CaseErrors with the 0-based index of the loop in the message
CaseErrors_ZeroBased(section, index, testCase) ==
  LET missing == SelectSeq(requiredFields, LAMBDA f : ~HasKey(testCase, f))
      where == "Section " \o section \o ", case " \o NumToStr(index - 1)
  IN [i \in 1..Len(missing) |-> where \o ": Missing field " \o missing[i]]
     \o (IF StepsEmpty(testCase) THEN <<where \o ": Steps array is empty">>
         ELSE <<>>)

\* second loop of validateOutput: the errors of one case
CaseErrors(section, index, testCase) ==
  LET missing == SelectSeq(requiredFields, LAMBDA f : ~HasKey(testCase, f))
      where == "Section " \o section \o ", case " \o NumToStr(index)
  IN [i \in 1..Len(missing) |-> where \o ": Missing field " \o missing[i]]
     \o (IF StepsEmpty(testCase) THEN <<where \o ": Steps array is empty">>
         ELSE <<>>)

\* the element of a section on which the in operator raises, if any
BadCase(arrays) ==
  \E i \in 1..Len(arrays) : \E j \in 1..Len(arrays[i][2].v) :
    arrays[i][2].v[j].k \notin {"object", "array"}

\* ErrorsOf with the second loop skipped once a section error is found
ErrorsOf_StopAtSections(testCases, arrays) ==
  LET sections == Flatten([i \in 1..Len(requiredSections) |->
                             SectionErrors(testCases, requiredSections[i])])
  IN IF Len(sections) > 0 THEN sections
     ELSE Flatten([i \in 1..Len(arrays) |->
            Flatten([j \in 1..Len(arrays[i][2].v) |->
                       CaseErrors(arrays[i][1], j, arrays[i][2].v[j])])])

\* the errors array after both loops, arrays being the entries of testCases
\* that are arrays
ErrorsOf(testCases, arrays) ==
  Flatten([i \in 1..Len(requiredSections) |->
             SectionErrors(testCases, requiredSections[i])])
  \o Flatten([i \in 1..Len(arrays) |->
       Flatten([j \in 1..Len(arrays[i][2].v) |->
                  CaseErrors(arrays[i][1], j, arrays[i][2].v[j])])])

\* the returned object
ValidationResult(errors) ==
  ObjV(<<<<"isValid", BoolV(Len(errors) = 0)>>, <<"errors", StrArray(errors)>>>>)

\* validateOutput, arrays being the entries of testCases that are arrays
ValidateSections(testCases, arrays) ==
  IF BadCase(arrays)
  THEN Throw("Cannot use 'in' operator to search for 'id'")
  ELSE ValidationResult(ErrorsOf(testCases, arrays))

validateOutput(testCases) ==
  ValidateSections(testCases,
                   SelectSeq(Entries(testCases), LAMBDA p : p[2].k = "array"))

-----------------------------------------------------------------------------
(* The CallTool request handler *)

CallIds == {"c1", "c2"}

ToolNames == {"generate_test_cases", "run_test_cases"}

\* request.params.arguments: an object with or without input, or absent
Arguments ==
  {ObjV(<<<<"input", x>>>>) : x \in Inputs \ {UndefV}} \cup {ObjV(<<>>), UndefV}

IdleCall ==
  [pc |-> "idle", name |-> "", args |-> UndefV, normalizedInput |-> UndefV,
   baseId |-> UndefV, testCases |-> UndefV, validation |-> UndefV,
   response |-> UndefV]

\* FlatCount without flat(): the number of sections
FlatCount_NoFlat(values) == Len(values)

\* the number of elements of array.flat(), array being a sequence of values
FlatCount(values) ==
  Len(Flatten([i \in 1..Len(values) |->
                 IF values[i][2].k = "array" THEN values[i][2].v
                 ELSE <<values[i][2]>>]))

\* Object.values(testCases).flat().length
FlatLength(testCases) == FlatCount(Entries(testCases))

SectionLength(testCases, section) == NumV(Len(Get(testCases, section).v))

\* the object serialised in the success branch
SuccessResult(normalizedInput, validation, testCases) ==
  ObjV(<<<<"success", BoolV(TRUE)>>,
         <<"input_type", Get(normalizedInput, "type")>>,
         <<"validation", validation>>,
         <<"test_cases", testCases>>,
         <<"summary",
           ObjV(<<<<"total_cases", NumV(FlatLength(testCases))>>,
                  <<"by_section",
                    ObjV(<<<<"positive", SectionLength(testCases, "positive")>>,
                           <<"negative", SectionLength(testCases, "negative")>>,
                           <<"boundary", SectionLength(testCases, "boundary")>>,
                           <<"edge", SectionLength(testCases, "edge")>>>>)>>>>)>>>>)

\* the object serialised in the catch branch; of error.stack only the
\* first line is modelled
FailureResult(error) ==
  ObjV(<<<<"success", BoolV(FALSE)>>, <<"error", StrV(error.v)>>,
         <<"details", StrV("Error: " \o error.v)>>>>)

\* a local of the handler as recorded: unset when an exception came first
Local(x) == IF IsThrow(x) THEN UndefV ELSE x

\* Respond with a failed validation treated as an exception
Respond_AbortOnInvalid(normalizedInput, baseId, testCases, validation) ==
  [normalizedInput |-> Local(normalizedInput), baseId |-> Local(baseId),
   testCases |-> Local(testCases), validation |-> Local(validation),
   response |-> IF IsThrow(validation) THEN FailureResult(validation)
                ELSE IF Get(validation, "isValid") = BoolV(FALSE)
                THEN FailureResult(Throw("Output validation failed"))
                ELSE SuccessResult(normalizedInput, validation, testCases)]

\* step 4 of the handler, or its catch branch: the locals and the result
Respond(normalizedInput, baseId, testCases, validation) ==
  [normalizedInput |-> Local(normalizedInput), baseId |-> Local(baseId),
   testCases |-> Local(testCases), validation |-> Local(validation),
   response |-> IF IsThrow(validation) THEN FailureResult(validation)
                ELSE SuccessResult(normalizedInput, validation, testCases)]

\* step 3: validate the output; an exception raised before skips it
Validate(normalizedInput, baseId, testCases) ==
  Respond(normalizedInput, baseId, testCases,
          IF IsThrow(testCases) THEN testCases ELSE validateOutput(testCases))

\* step 2: generate the test cases; baseId is the base id that
\* generateTestCases mints first
Generate(normalizedInput) ==
  IF IsThrow(normalizedInput)
  THEN Validate(normalizedInput, UndefV, normalizedInput)
  ELSE Validate(normalizedInput, generateBaseId(normalizedInput),
                generateTestCases(normalizedInput))

\* the generate_test_cases branch of the handler, run to its return on the
\* arguments args, from step 1: normalize args.input
HandleGenerateTestCases(args) ==
  IF args.k = "undefined"
  THEN Generate(Throw("Cannot read properties of undefined (reading 'input')"))
  ELSE Generate(normalizeInput(Get(args, "input")))

\* the sections of two sets appended pairwise
Accumulated(earlier, later) ==
  TestCaseSet(Get(earlier, "positive").v \o Get(later, "positive").v,
              Get(earlier, "negative").v \o Get(later, "negative").v,
              Get(earlier, "boundary").v \o Get(later, "boundary").v,
              Get(earlier, "edge").v \o Get(later, "edge").v)

\* GenerateTestCasesTool with the testCases accumulator kept at module
\* level: a call appends to the sections an earlier call has filled
GenerateTestCasesTool_SharedAccumulator(c) ==
  /\ calls[c].pc = "pending"
  /\ calls[c].name = "generate_test_cases"
  /\ LET out == HandleGenerateTestCases(calls[c].args)
         earlier == {d \in CallIds : calls[d].testCases.k = "object"}
     IN calls' = [calls EXCEPT ![c] =
          [pc |-> "done", name |-> calls[c].name, args |-> calls[c].args,
           testCases |->
             IF earlier # {} /\ out.testCases.k = "object"
             THEN Accumulated(calls[CHOOSE d \in earlier : TRUE].testCases,
                              out.testCases)
             ELSE out.testCases]
          @@ out]
  /\ UNCHANGED <<server, files>>

GenerateTestCasesTool(c) ==
  /\ calls[c].pc = "pending"
  /\ calls[c].name = "generate_test_cases"
  /\ calls' = [calls EXCEPT ![c] =
       [pc |-> "done", name |-> calls[c].name, args |-> calls[c].args]
       @@ HandleGenerateTestCases(calls[c].args)]
  /\ UNCHANGED <<server, files>>

\* any other tool name: the handler throws to the transport
UnknownTool(c) ==
  /\ calls[c].pc = "pending"
  /\ calls[c].name # "generate_test_cases"
  /\ calls' = [calls EXCEPT ![c].pc = "done",
                            ![c].response = Throw("Unknown tool: " \o calls[c].name)]
  /\ UNCHANGED <<server, files>>

\* the transport invokes the handler for call c with a request
Invoke(c, name, args) ==
  /\ calls[c].pc = "idle"
  /\ calls' = [calls EXCEPT ![c] = [IdleCall EXCEPT !.pc = "pending",
                                       !.name = name, !.args = args]]
  /\ UNCHANGED <<server, files>>

\* a request arrives, with any tool name and any arguments
Request(c) == \E name \in ToolNames, args \in Arguments : Invoke(c, name, args)

\* the arguments of the calls that are run side by side
PairArguments ==
  {ObjV(<<<<"input", x>>>>) :
     x \in {StrV(StoryText), StrV(RawText), StrV("12"), NullV,
             StrV(JSONStringify(ObjV(<<<<"endpoint", StrV("/login")>>,
                                       <<"method", StrV("POST")>>,
                                       <<"request", LoginRequest>>>>))),
             ObjV(<<<<"endpoint", StrV("/login")>>, <<"method", StrV("POST")>>,
                    <<"request", MixedRequest>>>>),
             ObjV(<<<<"user", StrV("admin")>>>>),
             ObjV(<<<<"type", StrV("user_story")>>, <<"content", StrV(StoryText)>>>>),
             ObjV(<<<<"type", StrV("foo")>>>>)}}
  \cup {ObjV(<<>>)}

\* a request arrives while another call may be in flight
RequestPair(c) ==
  \E name \in ToolNames, args \in PairArguments : Invoke(c, name, args)

-----------------------------------------------------------------------------
(* The server with file tools, spreadsheet export and automation code *)

\* the tools of this server that are modelled
ServerToolNames ==
  {"generate_test_cases", "read_requirement_file",
   "generate_test_cases_from_file", "export_to_excel",
   "generate_automation_tests", "run_test_cases"}

IdleServerCall ==
  [pc |-> "idle", name |-> "", args |-> UndefV, fileResult |-> UndefV,
   normalizedInput |-> UndefV,
   testCases |-> UndefV, validation |-> UndefV, autoExportExcel |-> UndefV,
   excelPath |-> UndefV, excelData |-> UndefV, excelExport |-> UndefV,
   result |-> UndefV, response |-> UndefV]

\* no file has been written
NoFiles == [path \in {} |-> UndefV]

\* args.excel_path || './test-cases-auto.xlsx'
DefaultExcelPath == "./test-cases-auto.xlsx"

\* AutoExportEnabled with the flag tested for truthiness
AutoExportEnabled_Truthy(args) == Truthy(Get(args, "auto_export_excel"))

\* args.auto_export_excel !== false
AutoExportEnabled(args) == Get(args, "auto_export_excel") # BoolV(FALSE)

\* the header row of the sheet
ExcelHeader ==
  StrArray(<<"Test Case ID", "Title", "Type", "Priority", "Precondition",
             "Steps", "Expected Result", "Test Data", "Section">>)

exportSections == <<"positive", "negative", "boundary", "edge">>

\* section.charAt(0).toUpperCase() + section.slice(1)
Capitalize(section) ==
  ToUpperCase(SubSeq(section, 1, 1)) \o SubSeq(section, 2, Len(section))

\* Array.isArray(steps) ? steps.join('\n') : (steps || '')
StepsCell(steps) ==
  IF steps.k = "array"
  THEN StrV(Join([i \in 1..Len(steps.v) |->
                    IF steps.v[i].k \in {"null", "undefined"} THEN ""
                    ELSE ToStringJS(steps.v[i])], "\n"))
  ELSE Or(steps, StrV(""))

\* typeof test_data === 'object' ? JSON.stringify(test_data) : (test_data || '')
TestDataCell(testData) ==
  IF TypeOf(testData) = "object" THEN StrV(JSONStringify(testData))
  ELSE Or(testData, StrV(""))

\* the row pushed for one case of a section
ExcelRow(testCase, section) ==
  ArrV(<<Or(Get(testCase, "id"), StrV("")),
         Or(Get(testCase, "title"), StrV("")),
         Or(Get(testCase, "type"), StrV("")),
         Or(Get(testCase, "priority"), StrV("")),
         Or(Get(testCase, "precondition"), StrV("")),
         StepsCell(Get(testCase, "steps")),
         Or(Get(testCase, "expected_result"), StrV("")),
         TestDataCell(Get(testCase, "test_data")),
         StrV(Capitalize(section))>>)

\* testCases[section] && Array.isArray(testCases[section])
IsSectionArray(testCases, section) == Get(testCases, section).k = "array"

\* the rows of one section, in the order of its cases; none when the
\* section is absent or not an array
SectionRows(testCases, section) ==
  IF IsSectionArray(testCases, section)
  THEN [j \in 1..Len(Get(testCases, section).v) |->
          ExcelRow(Get(testCases, section).v[j], section)]
  ELSE <<>>

\* a property read on null or undefined raises: testCases itself, or an
\* element of one of its sections
ExcelDataRaises(testCases) ==
  \/ testCases.k \in {"null", "undefined"}
  \/ \E i \in 1..Len(exportSections) :
       /\ IsSectionArray(testCases, exportSections[i])
       /\ \E j \in 1..Len(Get(testCases, exportSections[i]).v) :
            Get(testCases, exportSections[i]).v[j].k \in {"null", "undefined"}

\* ExcelData with the sections taken in alphabetical order
ExcelData_Alphabetical(testCases) ==
  IF ExcelDataRaises(testCases)
  THEN Throw("Cannot read properties of undefined")
  ELSE ArrV(<<ExcelHeader>>
            \o SectionRows(testCases, "boundary") \o SectionRows(testCases, "edge")
            \o SectionRows(testCases, "negative")
            \o SectionRows(testCases, "positive"))

\* excelData as exportToExcel builds it: the header row, then the rows of
\* the four sections in order; or the TypeError raised on the way
ExcelData(testCases) ==
  IF ExcelDataRaises(testCases)
  THEN Throw("Cannot read properties of undefined")
  ELSE ArrV(<<ExcelHeader>>
            \o Flatten([i \in 1..Len(exportSections) |->
                          SectionRows(testCases, exportSections[i])]))

\* XLSX.writeFile(workbook, outputPath): the sheet data now in the file, or
\* the exception of the write; ok is whether the file system accepts it
WriteFile(excelData, outputPath, ok) ==
  IF IsThrow(excelData) THEN excelData
  ELSE IF outputPath.k # "string"
  THEN Throw("Cannot read properties of undefined (reading 'slice')")
  ELSE IF ~ok
  THEN Throw("EACCES: permission denied, open '" \o outputPath.v \o "'")
  ELSE excelData

RECURSIVE SumLengths(_)
\* the number of characters of a sequence of cells
SumLengths(cells) ==
  IF Len(cells) = 0 THEN 0
  ELSE Len(ToStringJS(Head(cells))) + SumLengths(Tail(cells))

RECURSIVE WorkbookSize(_)
\* the size stat reports for a file holding the sheet rows: it is fixed by
\* what was written; here the number of characters of cell text
WorkbookSize(rows) ==
  IF Len(rows) = 0 THEN 0
  ELSE SumLengths(Head(rows).v) + WorkbookSize(Tail(rows))

\* the object exportToExcel returns from its catch block
ExportFailure(error) ==
  ObjV(<<<<"success", BoolV(FALSE)>>, <<"error", StrV(error.v)>>,
         <<"details", StrV("Error: " \o error.v)>>>>)

\* the object exportToExcel returns after the stat
ExportSuccess(outputPath, excelData, fileSize) ==
  ObjV(<<<<"success", BoolV(TRUE)>>, <<"path", outputPath>>,
         <<"total_cases", NumV(Len(excelData.v) - 1)>>,
         <<"file_size", NumV(fileSize)>>>>)

\* ServerSuccessResult with a failed export turned into a failure result
ServerSuccessResult_ExportAborts(normalizedInput, validation, testCases, excelExport, autoExportExcel) ==
  IF Get(excelExport, "success") = BoolV(FALSE)
  THEN FailureResult(Get(excelExport, "error"))
  ELSE ObjV(<<<<"success", BoolV(TRUE)>>,
              <<"input_type", Get(normalizedInput, "type")>>,
              <<"validation", validation>>,
              <<"test_cases", testCases>>,
              <<"excel_export", excelExport>>,
              <<"auto_export_enabled", BoolV(autoExportExcel)>>,
              <<"summary",
                ObjV(<<<<"total_cases", NumV(FlatLength(testCases))>>,
                       <<"by_section",
                         ObjV(<<<<"positive", SectionLength(testCases, "positive")>>,
                                <<"negative", SectionLength(testCases, "negative")>>,
                                <<"boundary", SectionLength(testCases, "boundary")>>,
                                <<"edge", SectionLength(testCases, "edge")>>>>)>>>>)>>>>)

\* the object serialised at step 5 of generate_test_cases
ServerSuccessResult(normalizedInput, validation, testCases, excelExport, autoExportExcel) ==
  ObjV(<<<<"success", BoolV(TRUE)>>,
         <<"input_type", Get(normalizedInput, "type")>>,
         <<"validation", validation>>,
         <<"test_cases", testCases>>,
         <<"excel_export", excelExport>>,
         <<"auto_export_enabled", BoolV(autoExportExcel)>>,
         <<"summary",
           ObjV(<<<<"total_cases", NumV(FlatLength(testCases))>>,
                  <<"by_section",
                    ObjV(<<<<"positive", SectionLength(testCases, "positive")>>,
                           <<"negative", SectionLength(testCases, "negative")>>,
                           <<"boundary", SectionLength(testCases, "boundary")>>,
                           <<"edge", SectionLength(testCases, "edge")>>>>)>>>>)>>>>)

\* what the handler returns once exportToExcel has returned excelExport:
\* the step 5 object of generate_test_cases, or the export result itself
\* for export_to_excel
AfterExport(call, excelExport) ==
  IF call.name = "generate_test_cases"
  THEN ServerSuccessResult(call.normalizedInput, call.validation,
                           call.testCases, excelExport, TRUE)
  ELSE excelExport

\* exportToExcel up to its await, for the call record call: written is the
\* outcome of building the rows and writing the file. On an exception the
\* catch block returns at once; otherwise the file holds the rows and the
\* function waits for stat
ExportToExcelStart(c, call, written) ==
  IF IsThrow(written)
  THEN /\ server' = [server EXCEPT ![c] =
            [call EXCEPT !.pc = "done",
                         !.excelExport = ExportFailure(written),
                         !.response = AfterExport(call, ExportFailure(written))]]
       /\ UNCHANGED files
  ELSE /\ server' = [server EXCEPT ![c] =
            [call EXCEPT !.pc = "stat", !.excelData = written]]
       /\ files' = (call.excelPath.v :> written) @@ files

\* steps 4 and 5 of generate_test_cases after a pipeline that did not raise
ExportOrReturn(c, call, ok) ==
  IF call.autoExportExcel = BoolV(TRUE)
  THEN ExportToExcelStart(c, call,
                          WriteFile(ExcelData(call.testCases), call.excelPath, ok))
  ELSE /\ server' = [server EXCEPT ![c] =
            [call EXCEPT !.pc = "done", !.excelExport = NullV,
                         !.response =
                           ServerSuccessResult(call.normalizedInput,
                                               call.validation, call.testCases,
                                               NullV, FALSE)]]
       /\ UNCHANGED files

\* generate_test_cases on the outcome out of steps 1 to 3 (the same
\* normalizeInput, generateTestCases and validateOutput)
AfterPipeline(c, out, ok) ==
  IF Get(out.response, "success") = BoolV(FALSE)
  THEN /\ server' = [server EXCEPT ![c].pc = "done",
                                   ![c].normalizedInput = out.normalizedInput,
                                   ![c].testCases = out.testCases,
                                   ![c].validation = out.validation,
                                   ![c].response = out.response]
       /\ UNCHANGED files
  ELSE ExportOrReturn(c,
         [server[c] EXCEPT
            !.normalizedInput = out.normalizedInput,
            !.testCases = out.testCases,
            !.validation = out.validation,
            !.autoExportExcel = BoolV(AutoExportEnabled(server[c].args)),
            !.excelPath = Or(Get(server[c].args, "excel_path"),
                             StrV(DefaultExcelPath))],
         ok)

\* the generate_test_cases branch, up to its return or to the await inside
\* exportToExcel
ServerGenerateTestCases(c) ==
  /\ server[c].pc = "pending"
  /\ server[c].name = "generate_test_cases"
  /\ \E ok \in BOOLEAN :
       AfterPipeline(c, HandleGenerateTestCases(server[c].args), ok)
  /\ UNCHANGED calls

\* the export_to_excel branch, up to its return or to the await inside
\* exportToExcel
ServerExportToExcel(c) ==
  /\ server[c].pc = "pending"
  /\ server[c].name = "export_to_excel"
  /\ IF server[c].args.k = "undefined"
     THEN /\ server' = [server EXCEPT ![c].pc = "done",
               ![c].response = FailureResult(
                 Throw("Cannot read properties of undefined (reading 'test_cases')"))]
          /\ UNCHANGED files
     ELSE \E ok \in BOOLEAN :
            ExportToExcelStart(c,
              [server[c] EXCEPT !.testCases = Get(server[c].args, "test_cases"),
                                !.excelPath = Get(server[c].args, "output_path")],
              WriteFile(ExcelData(Get(server[c].args, "test_cases")),
                        Get(server[c].args, "output_path"), ok))
  /\ UNCHANGED calls

\* the object exportToExcel returns once stat has answered: ok is whether
\* the file is still there to be read
StatResult(call, ok) ==
  IF ok /\ call.excelPath.v \in DOMAIN files
  THEN ExportSuccess(call.excelPath, call.excelData,
                     WorkbookSize(files[call.excelPath.v].v))
  ELSE ExportFailure(Throw("ENOENT: no such file or directory, stat '"
                           \o call.excelPath.v \o "'"))

\* the result of exportToExcel recorded and the handler's return built
ExportReturns(c, excelExport) ==
  server' = [server EXCEPT ![c].pc = "done",
                           ![c].excelExport = excelExport,
                           ![c].response = AfterExport(server[c], excelExport)]

\* stat answers: exportToExcel returns and the handler returns
StatResolved(c) ==
  /\ server[c].pc = "stat"
  /\ \E ok \in BOOLEAN : ExportReturns(c, StatResult(server[c], ok))
  /\ UNCHANGED <<calls, files>>

\* the first line of the setup code returned by generatePlaywrightSetup
generatePlaywrightSetup == "// Playwright Test Configuration"

\* generatePlaywrightTest: title.replace(...) needs a string; the test of
\* testCase.precondition then reads testCase, which is bound neither in the
\* function nor in the module, so a ReferenceError is raised before any
\* step is converted
generatePlaywrightTest(title) ==
  IF title.k \in {"null", "undefined"}
  THEN Throw("Cannot read properties of undefined (reading 'replace')")
  ELSE IF title.k # "string" THEN Throw("title.replace is not a function")
  ELSE Throw("testCase is not defined")

generateSingleTest(testCase, framework, language) ==
  IF testCase.k \in {"null", "undefined"}
  THEN Throw("Cannot destructure property 'id' of 'testCase'")
  ELSE IF framework = StrV("playwright") /\ language = StrV("javascript")
  THEN generatePlaywrightTest(Get(testCase, "title"))
  ELSE StrV("// Test generation not implemented for " \o ToStringJS(framework)
            \o " with " \o ToStringJS(language))

\* the snippets of the sections that are arrays, as the entries of tests
SectionTests(testCases, framework, language) ==
  LET present == SelectSeq(exportSections,
                           LAMBDA section : IsSectionArray(testCases, section))
  IN [i \in 1..Len(present) |->
        <<present[i],
          ArrV([j \in 1..Len(Get(testCases, present[i]).v) |->
                  generateSingleTest(Get(testCases, present[i]).v[j],
                                     framework, language)])>>]

\* the first exception raised while mapping the cases, if any
FirstRaised(tests) ==
  LET raised == SelectSeq(Flatten([i \in 1..Len(tests) |-> tests[i][2].v]),
                          IsThrow)
  IN IF Len(raised) = 0 THEN UndefV ELSE raised[1]

\* the automationTests object, or the exception raised while filling it
AutomationTests(framework, language, baseUrl, tests, raised) ==
  IF IsThrow(raised) THEN raised
  ELSE ObjV(<<<<"framework", framework>>, <<"language", language>>,
              <<"baseUrl", baseUrl>>, <<"tests", ObjV(tests)>>,
              <<"setup",
                IF framework = StrV("playwright") /\ language = StrV("javascript")
                THEN StrV(generatePlaywrightSetup) ELSE StrV("")>>,
              <<"dependencies",
                IF framework = StrV("playwright") /\ language = StrV("javascript")
                THEN StrArray(<<"@playwright/test">>) ELSE ArrV(<<>>)>>>>)

\* generateAutomationTests on its resolved options
AutomationFor(testCases, framework, language, baseUrl) ==
  IF testCases.k \in {"null", "undefined"}
  THEN Throw("Cannot read properties of undefined (reading 'positive')")
  ELSE AutomationTests(framework, language, baseUrl,
                       SectionTests(testCases, framework, language),
                       FirstRaised(SectionTests(testCases, framework, language)))

generateAutomationTests(testCases, options) ==
  AutomationFor(testCases,
                Or(Get(options, "framework"), StrV("playwright")),
                Or(Get(options, "language"), StrV("javascript")),
                Or(Get(options, "baseUrl"), StrV("https://example.com")))

\* result.tests[section] ? result.tests[section].length : 0
TestsLength(tests, section) ==
  IF Truthy(Get(tests, section)) THEN NumV(Len(Get(tests, section).v))
  ELSE NumV(0)

\* the object serialised by generate_automation_tests, or by its catch
AutomationResult(result) ==
  IF IsThrow(result) THEN FailureResult(result)
  ELSE ObjV(<<<<"success", BoolV(TRUE)>>,
              <<"framework", Get(result, "framework")>>,
              <<"language", Get(result, "language")>>,
              <<"base_url", Get(result, "baseUrl")>>,
              <<"dependencies", Get(result, "dependencies")>>,
              <<"setup", Get(result, "setup")>>,
              <<"tests", Get(result, "tests")>>,
              <<"summary",
                ObjV(<<<<"total_tests",
                         NumV(FlatCount(Entries(Get(result, "tests"))))>>,
                       <<"by_section",
                         ObjV([i \in 1..Len(exportSections) |->
                                 <<exportSections[i],
                                   TestsLength(Get(result, "tests"),
                                               exportSections[i])>>])>>>>)>>>>)

\* the options object the handler builds from args
AutomationOptions(args) ==
  ObjV(<<<<"framework", Or(Get(args, "framework"), StrV("playwright"))>>,
         <<"language", Or(Get(args, "language"), StrV("javascript"))>>,
         <<"baseUrl", Or(Get(args, "base_url"), StrV("https://example.com"))>>>>)

\* the locals and the return of the generate_automation_tests branch
AutomationReturns(c, result) ==
  server' = [server EXCEPT ![c].pc = "done", ![c].result = result,
                           ![c].testCases = Get(server[c].args, "test_cases"),
                           ![c].response = AutomationResult(result)]

ServerGenerateAutomationTests(c) ==
  /\ server[c].pc = "pending"
  /\ server[c].name = "generate_automation_tests"
  /\ IF server[c].args.k = "undefined"
     THEN AutomationReturns(c,
            Throw("Cannot read properties of undefined (reading 'framework')"))
     ELSE AutomationReturns(c,
            generateAutomationTests(Get(server[c].args, "test_cases"),
                                    AutomationOptions(server[c].args)))
  /\ UNCHANGED <<calls, files>>

\* process.cwd()
Cwd == "/req"

\* the JSON text of the login API specification
ApiText ==
  JSONStringify(ObjV(<<<<"endpoint", StrV("/login")>>, <<"method", StrV("POST")>>,
                       <<"request", LoginRequest>>>>))

\* a regular file of the disk
FileEntry(content, readable) ==
  [kind |-> "file", content |-> content, readable |-> readable]

\* the requirement files on disk: Disk[path] for every path that exists; a
\* directory, files of supported and of other extensions, a file without
\* extension and a file the process may not read
Disk ==
  ("/req" :> [kind |-> "dir", content |-> "", readable |-> TRUE])
  @@ ("/req/story.md" :> FileEntry(StoryText, TRUE))
  @@ ("/req/api.json" :> FileEntry(ApiText, TRUE))
  @@ ("/req/api.xyz" :> FileEntry(ApiText, TRUE))
  @@ ("/req/STORY.TXT" :> FileEntry(StoryText, TRUE))
  @@ ("/req/notes" :> FileEntry(RawText, TRUE))
  @@ ("/req/secret.txt" :> FileEntry(RawText, FALSE))

\* resolvePath: a path starting with '/' or with a drive letter is kept;
\* any other is joined to the working directory (join drops a leading './')
resolvePath(filePath) ==
  IF \/ Ch(filePath, 1) = "/"
     \/ /\ Ch(filePath, 1) \in CharsOf(LowerLetters) \cup CharsOf(UpperLetters)
        /\ Ch(filePath, 2) = ":"
  THEN filePath
  ELSE IF SubSeq(filePath, 1, 2) = "./"
  THEN Cwd \o "/" \o SubSeq(filePath, 3, Len(filePath))
  ELSE Cwd \o "/" \o filePath

\* the position of the last character c of s, 0 when there is none
LastIndexOf(s, c) ==
  IF \E i \in 1..Len(s) : Ch(s, i) = c
  THEN CHOOSE i \in 1..Len(s) :
         Ch(s, i) = c /\ \A j \in (i + 1)..Len(s) : Ch(s, j) # c
  ELSE 0

\* path.basename
BaseName(path) == SubSeq(path, LastIndexOf(path, "/") + 1, Len(path))

\* path.extname: from the last '.' of the base name to its end; empty when
\* there is no '.' or the only one is the first character
ExtName(path) ==
  IF LastIndexOf(BaseName(path), ".") <= 1 THEN ""
  ELSE SubSeq(BaseName(path), LastIndexOf(BaseName(path), "."),
              Len(BaseName(path)))

\* detectFileType: by extension, then by content
detectFileType(extension, content) ==
  CASE ToLowerCase(extension) \in {".md", ".markdown"} -> "markdown"
    [] ToLowerCase(extension) \in {".txt", ".text"} -> "text"
    [] ToLowerCase(extension) \in {".json"} -> "json"
    [] ToLowerCase(extension) \in {".yml", ".yaml"} -> "yaml"
    [] ToLowerCase(extension) \in {".doc", ".docx"} -> "word"
    [] ToLowerCase(extension) \in {".pdf"} -> "pdf"
    [] OTHER ->
         IF /\ Includes(content, "As a") /\ Includes(content, "I want")
            /\ Includes(content, "So that")
         THEN "user_story"
         ELSE IF \/ Includes(content, "endpoint") \/ Includes(content, "method")
                 \/ Includes(content, "request")
         THEN "api_spec"
         ELSE "unknown"

\* the object readRequirementFile returns from its catch block; a path that
\* is undefined leaves no property in the serialised result
ReadFailure(error, filePath) ==
  ObjV(<<<<"success", BoolV(FALSE)>>, <<"error", StrV(error)>>>>
       \o (IF filePath.k = "undefined" THEN <<>> ELSE <<<<"path", filePath>>>>))

\* the object readRequirementFile returns for a file it has read
ReadSuccess(absolutePath, content) ==
  ObjV(<<<<"success", BoolV(TRUE)>>, <<"path", StrV(absolutePath)>>,
         <<"extension", StrV(ToLowerCase(ExtName(absolutePath)))>>,
         <<"size", NumV(Len(content))>>,
         <<"content", StrV(content)>>,
         <<"type", StrV(detectFileType(ToLowerCase(ExtName(absolutePath)),
                                       content))>>>>)

\* readRequirementFile from the resolved path on: stat, isFile, readFile
ReadResolved(absolutePath, filePath) ==
  IF absolutePath \notin DOMAIN Disk
  THEN ReadFailure("ENOENT: no such file or directory, stat '"
                   \o absolutePath \o "'", filePath)
  ELSE IF Disk[absolutePath].kind # "file"
  THEN ReadFailure("Path is not a file: " \o absolutePath, filePath)
  ELSE IF ~Disk[absolutePath].readable
  THEN ReadFailure("EACCES: permission denied, open '" \o absolutePath \o "'",
                   filePath)
  ELSE ReadSuccess(absolutePath, Disk[absolutePath].content)

\* readRequirementFile: every exception ends in the catch block
readRequirementFile(filePath) ==
  IF filePath.k \in {"undefined", "null"}
  THEN ReadFailure("Cannot read properties of " \o ToStringJS(filePath)
                   \o " (reading 'startsWith')", filePath)
  ELSE IF filePath.k # "string"
  THEN ReadFailure("filePath.startsWith is not a function", filePath)
  ELSE ReadResolved(resolvePath(filePath.v), filePath)

\* the read_requirement_file branch: the result of readRequirementFile is
\* returned as it is
ServerReadRequirementFile(c) ==
  /\ server[c].pc = "pending"
  /\ server[c].name = "read_requirement_file"
  /\ server' = [server EXCEPT
       ![c].pc = "done",
       ![c].fileResult =
         IF server[c].args.k = "undefined" THEN UndefV
         ELSE readRequirementFile(Get(server[c].args, "file_path")),
       ![c].response =
         IF server[c].args.k = "undefined"
         THEN FailureResult(
                Throw("Cannot read properties of undefined (reading 'file_path')"))
         ELSE readRequirementFile(Get(server[c].args, "file_path"))]
  /\ UNCHANGED <<calls, files>>

\* FileInput with the content tagged by the detected file type
FileInput_ByDetectedType(fileResult) ==
  IF Get(fileResult, "type") \in {StrV("markdown"), StrV("text")}
  THEN ObjV(<<<<"type", StrV("user_story")>>,
              <<"content", Get(fileResult, "content")>>>>)
  ELSE Get(fileResult, "content")

\* the value generate_test_cases_from_file hands to normalizeInput
FileInput(fileResult) == Get(fileResult, "content")

\* the step 5 object of generate_test_cases_from_file
FromFileSuccess(fileResult, normalizedInput, validation, testCases) ==
  ObjV(<<<<"success", BoolV(TRUE)>>,
         <<"file_info",
           ObjV(<<<<"path", Get(fileResult, "path")>>,
                  <<"type", Get(fileResult, "type")>>,
                  <<"extension", Get(fileResult, "extension")>>,
                  <<"size", Get(fileResult, "size")>>>>)>>,
         <<"input_type", Get(normalizedInput, "type")>>,
         <<"validation", validation>>,
         <<"test_cases", testCases>>,
         <<"summary",
           ObjV(<<<<"total_cases", NumV(FlatLength(testCases))>>,
                  <<"by_section",
                    ObjV(<<<<"positive", SectionLength(testCases, "positive")>>,
                           <<"negative", SectionLength(testCases, "negative")>>,
                           <<"boundary", SectionLength(testCases, "boundary")>>,
                           <<"edge", SectionLength(testCases, "edge")>>>>)>>>>)>>>>)

\* steps 2 to 5 of generate_test_cases_from_file on the outcome out of
\* normalizeInput, generateTestCases and validateOutput
FromFilePipeline(call, fileResult, out) ==
  [call EXCEPT
     !.pc = "done",
     !.fileResult = fileResult,
     !.normalizedInput = out.normalizedInput,
     !.testCases = out.testCases,
     !.validation = out.validation,
     !.response =
       IF Get(out.response, "success") = BoolV(FALSE)
       THEN out.response
       ELSE FromFileSuccess(fileResult, out.normalizedInput, out.validation,
                            out.testCases)]

\* generate_test_cases_from_file once the file result is there
FromFileResult(call, fileResult) ==
  IF Get(fileResult, "success") # BoolV(TRUE)
  THEN [call EXCEPT
          !.pc = "done",
          !.fileResult = fileResult,
          !.response =
            ObjV(<<<<"success", BoolV(FALSE)>>,
                   <<"error", StrV("Failed to read file: "
                                   \o ToStringJS(Get(fileResult, "error")))>>>>)]
  ELSE FromFilePipeline(call, fileResult,
                        Generate(normalizeInput(FileInput(fileResult))))

\* the generate_test_cases_from_file branch
ServerGenerateFromFile(c) ==
  /\ server[c].pc = "pending"
  /\ server[c].name = "generate_test_cases_from_file"
  /\ server' = [server EXCEPT ![c] =
       IF server[c].args.k = "undefined"
       THEN [server[c] EXCEPT
               !.pc = "done",
               !.response = FailureResult(
                 Throw("Cannot read properties of undefined (reading 'file_path')"))]
       ELSE FromFileResult(server[c],
                           readRequirementFile(Get(server[c].args, "file_path")))]
  /\ UNCHANGED <<calls, files>>

\* the values given as file_path
FilePaths ==
  {StrV(path) : path \in {"/req/story.md", "story.md", "./api.json",
                          "/req/api.json", "/req/api.xyz", "/req/STORY.TXT",
                          "/req/notes", "/req/secret.txt", "/req",
                          "/missing.md", "C:/req/story.md"}}
  \cup {NumV(5)}

FileArguments ==
  {ObjV(<<<<"file_path", path>>>>) : path \in FilePaths} \cup {ObjV(<<>>), UndefV}

\* any other tool name: the handler throws to the transport
ServerUnknownTool(c) ==
  /\ server[c].pc = "pending"
  /\ server[c].name \notin {"generate_test_cases", "read_requirement_file",
                            "generate_test_cases_from_file", "export_to_excel",
                            "generate_automation_tests"}
  /\ server' = [server EXCEPT ![c].pc = "done",
                  ![c].response = Throw("Unknown tool: " \o server[c].name)]
  /\ UNCHANGED <<calls, files>>

\* the inputs given to generate_test_cases of this server
ServerInputs ==
  {StrV(StoryText), StrV(RawText), NullV,
   ObjV(<<<<"endpoint", StrV("/login")>>, <<"method", StrV("POST")>>,
          <<"request", LoginRequest>>>>),
   ObjV(<<<<"endpoint", StrV("/users")>>, <<"method", StrV("GET")>>>>),
   ObjV(<<<<"user", StrV("admin")>>>>),
   ObjV(<<<<"type", StrV("foo")>>>>),
   ObjV(<<<<"type", StrV("api")>>>>),
   ObjV(<<<<"type", StrV("api")>>, <<"endpoint", StrV("/login")>>>>),
   ObjV(<<<<"type", StrV("api")>>, <<"endpoint", StrV("/login")>>,
          <<"method", StrV("POST")>>>>),
   ObjV(<<<<"type", StrV("user_story")>>>>),
   ObjV(<<<<"type", StrV("user_story")>>, <<"content", StrV(StoryText)>>>>),
   ObjV(<<<<"type", StrV("raw_text")>>, <<"content", NumV(5)>>>>)}

AutoExportOpts ==
  {<<>>, <<<<"auto_export_excel", BoolV(TRUE)>>>>,
   <<<<"auto_export_excel", BoolV(FALSE)>>>>,
   <<<<"auto_export_excel", NullV>>>>, <<<<"auto_export_excel", NumV(0)>>>>,
   <<<<"auto_export_excel", StrV("false")>>>>}

ExcelPathOpts ==
  {<<>>, <<<<"excel_path", StrV("./out/cases.xlsx")>>>>,
   <<<<"excel_path", StrV("")>>>>}

GenerateArguments ==
  {ObjV(<<<<"input", x>>>> \o a \o p) :
     x \in ServerInputs, a \in AutoExportOpts, p \in ExcelPathOpts}
  \cup {ObjV(<<>>), UndefV}

-----------------------------------------------------------------------------
(* validateOutput applied to a test-case set *)

\* the object without its property key
Without(obj, key) == ObjV(SelectSeq(obj.v, LAMBDA p : p[1] # key))

\* the object with its property key set to value, in place
With(obj, key, value) ==
  ObjV([i \in 1..Len(obj.v) |->
          IF obj.v[i][1] = key THEN <<key, value>> ELSE obj.v[i]])

\* the set with field dropped from the case at position index of section
DropField(set, section, index, field) ==
  With(set, section,
       ArrV([j \in 1..Len(Get(set, section).v) |->
               IF j = index THEN Without(Get(set, section).v[j], field)
               ELSE Get(set, section).v[j]]))

\* the seven cases generated for the login API
LoginApiSet ==
  generateTestCases(normalizeInput(
    ObjV(<<<<"endpoint", StrV("/login")>>, <<"method", StrV("POST")>>,
           <<"request", LoginRequest>>>>)))

\* a set with violations of every other kind: a section that is not an
\* array, a case with an empty steps array, a section outside the four
\* required ones whose case lacks several fields
FlawedSet ==
  ObjV(<<<<"positive",
           ArrV(<<With(Get(LoginApiSet, "positive").v[1], "steps", ArrV(<<>>))>>)>>,
         <<"negative", Get(LoginApiSet, "negative")>>,
         <<"boundary", Get(LoginApiSet, "boundary")>>,
         <<"edge", StrV("none")>>,
         <<"extra", ArrV(<<ObjV(<<<<"id", StrV("TC_X_001")>>,
                                  <<"title", StrV("Extra")>>,
                                  <<"steps", StrV("")>>>>)>>)>>>>)

\* a set that passes every rule: three cases in each section
ThreeEach(case) == ArrV(<<case, case, case>>)

CompleteSet ==
  ObjV(<<<<"positive", ThreeEach(Get(LoginApiSet, "positive").v[1])>>,
         <<"negative", ThreeEach(Get(LoginApiSet, "negative").v[1])>>,
         <<"boundary", ThreeEach(Get(LoginApiSet, "boundary").v[1])>>,
         <<"edge", ThreeEach(Get(LoginApiSet, "edge").v[1])>>>>)

\* a set that passes every rule on the four required sections and carries
\* a fifth section whose case lacks fields
ExtraSet ==
  ObjV(CompleteSet.v \o
       <<<<"extra", ArrV(<<ObjV(<<<<"id", StrV("TC_X_001")>>,
                                  <<"title", StrV("Extra")>>,
                                  <<"steps", ArrV(<<>>)>>>>)>>)>>>>)

\* the sets of base with one field dropped from one case
DroppedSets(base) ==
  UNION {UNION {{DropField(base, base.v[s][1], j, f) : f \in FieldNames} :
                  j \in 1..(IF base.v[s][2].k = "array" THEN Len(base.v[s][2].v)
                            ELSE 0)} :
         s \in 1..Len(base.v)}

\* the test-case sets validateOutput is applied to
TestCaseSets ==
  {LoginApiSet, FlawedSet, CompleteSet, ExtraSet, ObjV(<<>>),
   ObjV(<<<<"positive", ArrV(<<NullV>>)>>>>)}
  \cup DroppedSets(LoginApiSet) \cup DroppedSets(FlawedSet)
  \cup DroppedSets(CompleteSet)

\* validateOutput(testCases) is called with the set given as args
ValidateOutputCall(c) ==
  /\ calls[c].pc = "pending"
  /\ calls[c].name = "validateOutput"
  /\ calls' = [calls EXCEPT ![c].pc = "done",
                            ![c].testCases = calls[c].args,
                            ![c].validation = validateOutput(calls[c].args)]
  /\ UNCHANGED <<server, files>>

-----------------------------------------------------------------------------
(* Requests to the server with file tools *)

\* the four cases generated for the login story
StorySet ==
  generateTestCases(
    ObjV(<<<<"type", StrV("user_story")>>, <<"content", StrV(StoryText)>>>>))

\* a set whose cases have fields of other shapes: no id, steps as a string,
\* test_data as a number or null, a number as id
LooseSet ==
  ObjV(<<<<"positive",
           ArrV(<<ObjV(<<<<"title", StrV("No id")>>,
                         <<"steps", StrV("Open the login page")>>,
                         <<"test_data", NumV(5)>>>>),
                  ObjV(<<<<"id", NumV(7)>>, <<"title", StrV("Numbered")>>,
                         <<"steps", ArrV(<<StrV("Click save"), NullV>>)>>,
                         <<"test_data", NullV>>>>)>>)>>,
         <<"negative", ArrV(<<>>)>>,
         <<"edge", ArrV(<<ObjV(<<<<"id", StrV("TC_E_001")>>,
                                 <<"title", StrV("Edge")>>>>)>>)>>>>)

\* the values given as test_cases to export_to_excel
ExportSets ==
  {LoginApiSet, StorySet, FlawedSet, LooseSet, CompleteSet, ObjV(<<>>),
   ObjV(<<<<"positive", ArrV(<<NullV>>)>>>>), NullV, StrV("cases"),
   ArrV(<<>>)}

ExportArguments ==
  {ObjV(<<<<"test_cases", t>>, <<"output_path", StrV(path)>>>>) :
     t \in ExportSets, path \in {"./test-cases.xlsx", DefaultExcelPath}}
  \cup {ObjV(<<<<"test_cases", LoginApiSet>>>>), ObjV(<<>>), UndefV}

FrameworkOpts ==
  {<<>>, <<<<"framework", StrV("playwright")>>, <<"language", StrV("javascript")>>,
           <<"base_url", StrV("https://myapp.com")>>>>,
   <<<<"framework", StrV("cypress")>>>>}

\* the values given as test_cases to generate_automation_tests
AutomationSets ==
  {LoginApiSet, StorySet, FlawedSet, LooseSet, ObjV(<<>>),
   ObjV(<<<<"positive", ArrV(<<>>)>>, <<"negative", ArrV(<<>>)>>,
          <<"boundary", ArrV(<<>>)>>, <<"edge", ArrV(<<>>)>>>>),
   ObjV(<<<<"positive", ArrV(<<NullV>>)>>>>), NullV}

AutomationArguments ==
  {ObjV(<<<<"test_cases", t>>>> \o f) : t \in AutomationSets, f \in FrameworkOpts}
  \cup {ObjV(<<>>), UndefV}

\* the arguments enumerated for a tool
ArgumentsFor(name) ==
  CASE name = "generate_test_cases" -> GenerateArguments
    [] name = "export_to_excel" -> ExportArguments
    [] name = "generate_automation_tests" -> AutomationArguments
    [] name = "read_requirement_file" -> FileArguments
    [] name = "generate_test_cases_from_file" -> FileArguments
    [] OTHER -> {ObjV(<<>>)}

\* the transport invokes the handler for call c with a request
ServerInvoke(c, name, args) ==
  /\ server[c].pc = "idle"
  /\ server' = [server EXCEPT ![c] = [IdleServerCall EXCEPT !.pc = "pending",
                                         !.name = name, !.args = args]]
  /\ UNCHANGED <<calls, files>>

ServerRequest(c) ==
  \E name \in ServerToolNames : \E args \in ArgumentsFor(name) :
    ServerInvoke(c, name, args)

\* the arguments enumerated when two invocations run side by side: text and
\* structured inputs with the default spreadsheet path, files holding the
\* same texts, and two sets exported to that same path
PairServerArguments(name) ==
  CASE name = "generate_test_cases" ->
         {ObjV(<<<<"input", x>>>> \o a) :
            x \in {StrV(StoryText), StrV(ApiText), StrV(RawText),
                   ObjV(<<<<"endpoint", StrV("/users")>>,
                          <<"method", StrV("GET")>>>>)},
            a \in {<<>>, <<<<"auto_export_excel", BoolV(FALSE)>>>>}}
    [] name = "generate_test_cases_from_file" ->
         {ObjV(<<<<"file_path", StrV(path)>>>>) :
            path \in {"/req/story.md", "/req/api.json", "/req/api.xyz",
                      "/req/notes", "/missing.md"}}
    [] name = "export_to_excel" ->
         {ObjV(<<<<"test_cases", t>>, <<"output_path", StrV(DefaultExcelPath)>>>>) :
            t \in {LoginApiSet, StorySet}}
    [] OTHER -> {}

ServerRequestPair(c) ==
  \E name \in {"generate_test_cases", "generate_test_cases_from_file",
                "export_to_excel"} :
    \E args \in PairServerArguments(name) : ServerInvoke(c, name, args)

-----------------------------------------------------------------------------
(* Specifications *)

Init ==
  /\ calls = [c \in CallIds |-> IdleCall]
  /\ server = [c \in CallIds |-> IdleServerCall]
  /\ files = NoFiles

\* one invocation, over every enumerated input
Next ==
  \/ Request("c1")
  \/ GenerateTestCasesTool("c1")
  \/ UnknownTool("c1")

Spec == Init /\ [][Next]_vars

\* two invocations of the same server side by side
NextPair ==
  \E c \in CallIds :
    \/ RequestPair(c)
    \/ GenerateTestCasesTool(c)
    \/ UnknownTool(c)

SpecPair == Init /\ [][NextPair]_vars

\* validateOutput on one of the enumerated sets
InitValidate ==
  /\ \E set \in TestCaseSets :
       calls = [c \in CallIds |->
                  IF c = "c1"
                  THEN [IdleCall EXCEPT !.pc = "pending", !.name = "validateOutput",
                                        !.args = set]
                  ELSE IdleCall]
  /\ server = [c \in CallIds |-> IdleServerCall]
  /\ files = NoFiles

NextValidate == ValidateOutputCall("c1")

SpecValidate == InitValidate /\ [][NextValidate]_vars

\* one invocation of the server with file tools
NextServer ==
  \/ ServerRequest("c1")
  \/ ServerGenerateTestCases("c1")
  \/ ServerReadRequirementFile("c1")
  \/ ServerGenerateFromFile("c1")
  \/ ServerExportToExcel("c1")
  \/ StatResolved("c1")
  \/ ServerGenerateAutomationTests("c1")
  \/ ServerUnknownTool("c1")

SpecServer == Init /\ [][NextServer]_vars

\* two invocations of the server with file tools in flight at once: the
\* handler of one runs while the other waits for stat
NextServerPair ==
  \E c \in CallIds :
    \/ ServerRequestPair(c)
    \/ ServerGenerateTestCases(c)
    \/ ServerGenerateFromFile(c)
    \/ ServerExportToExcel(c)
    \/ StatResolved(c)

SpecServerPair == Init /\ [][NextServerPair]_vars

-----------------------------------------------------------------------------
(* Observations on a call *)

\* call c is a generate_test_cases call that has returned
Generated(c) == calls[c].pc = "done" /\ calls[c].name = "generate_test_cases"

\* call c has returned a success result
Succeeded(c) ==
  Generated(c) /\ Get(calls[c].response, "success") = BoolV(TRUE)

\* the value normalizeInput was applied to
InputOf(c) == Get(calls[c].args, "input")

\* normalizeInput was called: the arguments object exists
Normalized(c) == Generated(c) /\ calls[c].args.k = "object"

TypeTag(c) == Get(calls[c].normalizedInput, "type")

\* the cases of a section of the generated set, as a sequence
Section(c, name) == Get(calls[c].testCases, name).v

\* the ids of all generated cases
CaseIds(c) ==
  UNION {{Get(Section(c, requiredSections[i])[j], "id").v :
            j \in 1..Len(Section(c, requiredSections[i]))} :
         i \in 1..Len(requiredSections)}

StartsWith(s, prefix) == SubSeq(s, 1, Len(prefix)) = prefix

-----------------------------------------------------------------------------
(* Claims *)

\* C1: a call whose input is the plain string "As a user I want to login so
\* that I can access dashboard" reports input_type user_story and its first
\* positive case is titled 'Happy path - login'.
C1_PlainStoryIsUserStory ==
  \A c \in CallIds :
    (Normalized(c) /\ InputOf(c) = StrV(StoryText)) =>
      /\ Succeeded(c)
      /\ IsStr(Get(calls[c].response, "input_type"), "user_story")
      /\ IsStr(Get(Section(c, "positive")[1], "title"), "Happy path - login")

\* C2: for a plain-text string input the base id is TC_ followed by the
\* first three words of length >= 3 of the input text itself, uppercased and
\* joined by '_'; for the login story every case id starts with
\* TC_USER_WANT_LOGIN_.
C2_BaseIdFromInputText ==
  \A c \in CallIds :
    (Normalized(c) /\ InputOf(c).k = "string" /\ InputOf(c).v \in PlainTexts) =>
      /\ Succeeded(c)
      /\ calls[c].baseId = StrV(WordsId(MatchWords(InputOf(c).v)))
      /\ InputOf(c).v = StoryText =>
           \A id \in CaseIds(c) : StartsWith(id, "TC_USER_WANT_LOGIN_")

\* C3: generateBaseId of a user_story or raw_text record whose content has
\* no word of length >= 3 is TC_GENERIC.
C3_GenericBaseId ==
  \A c \in CallIds :
    (/\ Normalized(c)
     /\ TypeTag(c).k = "string" /\ TypeTag(c).v \in {"user_story", "raw_text"}
     /\ Get(calls[c].normalizedInput, "content").k = "string"
     /\ MatchWords(Get(calls[c].normalizedInput, "content").v) = <<>>) =>
      calls[c].baseId = StrV("TC_GENERIC")

\* the names of the user story fields the classifier looks at
StoryFields == {"user", "story", "as", "iWant", "soThat"}

\* the structured value an input stands for: the input itself, or the value
\* its JSON text denotes; a string that is not JSON text has no fields
StructuredOf(x) ==
  IF x.k # "string" THEN x
  ELSE IF ParsesOf(x.v) = {} THEN ObjV(<<>>)
  ELSE CHOOSE v \in ParsesOf(x.v) : TRUE

C5_NormalizeNeverRaises ==
  \A c \in CallIds :
    Normalized(c) =>
      /\ calls[c].normalizedInput.k = "object"
      /\ IsThrow(NormalizeInputTry(InputOf(c))) =>
           /\ InputOf(c).k \in {"null", "undefined", "string"}
           /\ calls[c].normalizedInput =
                ObjV(<<<<"type", StrV("raw_text")>>,
                       <<"content",
                         StrV(CASE InputOf(c).k = "null" -> "null"
                                [] InputOf(c).k = "undefined" -> "undefined"
                                [] InputOf(c).k = "string" -> InputOf(c).v)>>>>)

\* the input null has failed inside the try block and come out as raw_text
C5_Witness ==
  \E c \in CallIds :
    /\ Normalized(c)
    /\ InputOf(c) = NullV
    /\ IsThrow(NormalizeInputTry(InputOf(c)))
    /\ calls[c].normalizedInput = RawTextRecord(StrV("null"))

\* C6: for every input of generate_test_cases the normalized record's type
\* is api, user_story or raw_text, so no call ends in the 'Unsupported input
\* type' error.
C6_TypeAlwaysKnown ==
  \A c \in CallIds :
    Normalized(c) =>
      /\ TypeTag(c).k = "string"
      /\ TypeTag(c).v \in {"api", "user_story", "raw_text"}
      /\ Get(calls[c].response, "error").k = "string" =>
           ~StartsWith(Get(calls[c].response, "error").v, "Unsupported input type")

\* C7: every successfully returned set has at least 3 cases in each of the
\* four sections, and its validation is isValid = true with no errors.
C7_ThreeCasesPerSection ==
  \A c \in CallIds :
    Succeeded(c) =>
      /\ \A i \in 1..Len(requiredSections) :
           Len(Section(c, requiredSections[i])) >= 3
      /\ Get(calls[c].validation, "isValid") = BoolV(TRUE)
      /\ Get(calls[c].validation, "errors") = ArrV(<<>>)

\* the validation of call c reports the section as short of 3 cases
ReportsShort(c, section) ==
  \E i \in 1..Len(Get(calls[c].validation, "errors").v) :
    Get(calls[c].validation, "errors").v[i]
      = StrV("Section " \o section \o " has less than 3 test cases")

\* the record is a user_story or raw_text record of the data model: its
\* content is a string
NarrativeRecord(c) ==
  /\ Normalized(c)
  /\ TypeTag(c).k = "string" /\ TypeTag(c).v \in {"user_story", "raw_text"}
  /\ Get(calls[c].normalizedInput, "content").k = "string"

SectionIds(c, name) ==
  [j \in 1..Len(Section(c, name)) |-> Get(Section(c, name)[j], "id").v]

\* the record is an api record of the data model: its endpoint is a string
ApiRecord(c) ==
  /\ Normalized(c)
  /\ IsStr(TypeTag(c), "api")
  /\ Get(calls[c].normalizedInput, "endpoint").k = "string"

RequestOf(c) == Or(Get(calls[c].normalizedInput, "request"), ObjV(<<>>))

\* the test_data of the case at position j of a section
TestDataOf(c, section, j) == Get(Section(c, section)[j], "test_data")

\* an api call that has returned its seven cases
ApiGenerated(c) == ApiRecord(c) /\ Succeeded(c)

\* C11: for every request mapping R, getInvalidTestData(R) (the test_data of
\* the second negative case) maps each string-valued key to a number, each
\* number- or boolean-valued key to a string, and keeps every key of any
\* other kind (null, nested object, array) with its original value.
C11_InvalidDataKeepsOtherKinds ==
  \A c \in CallIds :
    ApiGenerated(c) =>
      \A i \in 1..Len(Entries(RequestOf(c))) :
        LET key == Entries(RequestOf(c))[i][1]
            value == Entries(RequestOf(c))[i][2]
            invalid == TestDataOf(c, "negative", 2)
        IN CASE value.k = "string" -> Get(invalid, key).k = "number"
             [] value.k \in {"number", "boolean"} -> Get(invalid, key).k = "string"
             [] OTHER -> HasKey(invalid, key) /\ Get(invalid, key) = value

\* C12: for every api request, boundary[0].test_data holds a string of
\* exactly 255 characters for every string-valued field and 999999 for every
\* number-valued field; boundary[1].test_data holds "a" and 0 respectively.
C12_BoundaryValues ==
  \A c \in CallIds :
    ApiGenerated(c) =>
      \A i \in 1..Len(Entries(RequestOf(c))) :
        LET key == Entries(RequestOf(c))[i][1]
            value == Entries(RequestOf(c))[i][2]
            max == Get(TestDataOf(c, "boundary", 1), key)
            min == Get(TestDataOf(c, "boundary", 2), key)
        IN /\ value.k = "string" =>
                max.k = "string" /\ Len(max.v) = 255 /\ min = StrV("a")
           /\ value.k = "number" => max = NumV(999999) /\ min = NumV(0)

\* an api call whose request has a string field and a number field has
\* returned its two boundary cases
C12_Witness ==
  \E c \in CallIds :
    /\ ApiGenerated(c)
    /\ \E i \in 1..Len(Entries(RequestOf(c))) : Entries(RequestOf(c))[i][2].k = "string"
    /\ \E i \in 1..Len(Entries(RequestOf(c))) : Entries(RequestOf(c))[i][2].k = "number"
    /\ Len(Section(c, "boundary")) = 2

\* the validation of call c has failed
ValidationFailed(c) ==
  /\ Generated(c)
  /\ calls[c].validation.k = "object"
  /\ Get(calls[c].validation, "isValid") = BoolV(FALSE)

\* C14: when validation fails, generation is not aborted: the response has
\* success = true, carries the validation with isValid = false and its
\* errors, and test_cases is exactly the set generateTestCases produced.
C14_FailedValidationSurfaced ==
  \A c \in CallIds :
    ValidationFailed(c) =>
      /\ Succeeded(c)
      /\ Get(calls[c].response, "validation") = calls[c].validation
      /\ Len(Get(Get(calls[c].response, "validation"), "errors").v) > 0
      /\ Get(calls[c].response, "test_cases")
           = generateTestCases(calls[c].normalizedInput)

\* a call whose validation failed has returned its response
C14_Witness ==
  \E c \in CallIds :
    /\ ValidationFailed(c)
    /\ calls[c].response.k = "object"
    /\ Get(calls[c].response, "test_cases").k = "object"

\* the number of cases in a section of the returned test_cases
ReturnedLength(c, section) ==
  Len(Get(Get(calls[c].response, "test_cases"), section).v)

\* summary.by_section[section] of the response, as a number
BySection(c, section) ==
  Get(Get(Get(calls[c].response, "summary"), "by_section"), section).v

\* C15: in every successful response summary.total_cases equals the number
\* of cases over all sections of test_cases and the sum of the four
\* by_section entries, each of which is the length of its section.
C15_SummaryCounts ==
  \A c \in CallIds :
    Succeeded(c) =>
      /\ \A i \in 1..Len(requiredSections) :
           BySection(c, requiredSections[i]) = ReturnedLength(c, requiredSections[i])
      /\ Get(Get(calls[c].response, "summary"), "total_cases").v
           = BySection(c, "positive") + BySection(c, "negative")
             + BySection(c, "boundary") + BySection(c, "edge")
      /\ Get(Get(calls[c].response, "summary"), "total_cases").v
           = ReturnedLength(c, "positive") + ReturnedLength(c, "negative")
             + ReturnedLength(c, "boundary") + ReturnedLength(c, "edge")

\* an api call has returned a summary over seven cases in sections of
\* different lengths
C15_Witness ==
  \E c \in CallIds :
    /\ Succeeded(c)
    /\ BySection(c, "positive") = 1 /\ BySection(c, "edge") = 2
    /\ Get(Get(calls[c].response, "summary"), "total_cases") = NumV(7)

\* call c is a call of validateOutput that has returned or raised
Validated(c) == calls[c].pc = "done" /\ calls[c].name = "validateOutput"

\* the entries of the validated set that are arrays of case objects
CaseSections(c) ==
  SelectSeq(Entries(calls[c].testCases), LAMBDA p : p[2].k = "array")

\* every element of every array of the validated set is a case object
WellFormedCases(c) ==
  \A s \in 1..Len(CaseSections(c)) :
    \A j \in 1..Len(CaseSections(c)[s][2].v) :
      CaseSections(c)[s][2].v[j].k = "object"

\* the validation of call c lists the error text
ReportsError(c, text) ==
  /\ calls[c].validation.k = "object"
  /\ \E i \in 1..Len(Get(calls[c].validation, "errors").v) :
       Get(calls[c].validation, "errors").v[i] = StrV(text)

\* C13: for every test-case set (its cases being objects) in which the case
\* at 0-based index i of section S lacks required field F, the errors of
\* validateOutput contain 'Section S, case i+1: Missing field F', whatever
\* other violations the set has.
C13_MissingFieldReported ==
  \A c \in CallIds :
    (Validated(c) /\ WellFormedCases(c)) =>
      \A s \in 1..Len(CaseSections(c)) :
        \A j \in 1..Len(CaseSections(c)[s][2].v) :
          \A f \in FieldNames :
            ~HasKey(CaseSections(c)[s][2].v[j], f) =>
              ReportsError(c, "Section " \o CaseSections(c)[s][1] \o ", case "
                              \o NumToStr(j) \o ": Missing field " \o f)

\* a set with a non-array section and an empty steps array, and whose second
\* negative case lacks test_data, has been validated
C13_Witness ==
  \E c \in CallIds :
    /\ Validated(c)
    /\ Get(calls[c].testCases, "edge") = StrV("none")
    /\ ~HasKey(Get(calls[c].testCases, "negative").v[2], "test_data")
    /\ ReportsError(c, "Section negative, case 2: Missing field test_data")
    /\ ReportsError(c, "Missing or invalid section: edge")
    /\ ReportsError(c, "Section positive, case 1: Steps array is empty")

-----------------------------------------------------------------------------
(* Observations on a call of the server with file tools *)

\* call c of the server has returned, or thrown to the transport
Returned(c) == server[c].pc = "done"

\* call c is a generate_test_cases call whose steps 1 to 3 have not raised
Pipelined(c) ==
  /\ server[c].name = "generate_test_cases"
  /\ server[c].validation.k = "object"

\* exportToExcel has been entered by call c: it waits for stat, or it has
\* returned its result object
ExportRan(c) == server[c].pc = "stat" \/ server[c].excelExport.k = "object"

\* C16: every tool invocation, whatever the tool name and arguments, ends
\* with a result object that carries a success flag; none ends in an
\* exception thrown to the transport.
C16_AlwaysSuccessFlag ==
  \A c \in CallIds :
    /\ (calls[c].pc = "done" /\ calls[c].name \in ToolNames) =>
         calls[c].response.k = "object" /\ HasKey(calls[c].response, "success")
    /\ Returned(c) =>
         server[c].response.k = "object" /\ HasKey(server[c].response, "success")

\* the export of a generate_test_cases call with auto-export on has failed
ExportFailed(c) ==
  /\ Returned(c)
  /\ Pipelined(c)
  /\ server[c].autoExportExcel = BoolV(TRUE)
  /\ Get(server[c].excelExport, "success") = BoolV(FALSE)

\* C17: if the export fails during generate_test_cases with auto-export on,
\* the response still has success = true and the full test_cases,
\* validation and summary; the failure shows only in excel_export, with
\* success = false and the error message.
C17_ExportFailureContained ==
  \A c \in CallIds :
    ExportFailed(c) =>
      /\ Get(server[c].response, "success") = BoolV(TRUE)
      /\ ~HasKey(server[c].response, "error")
      /\ Get(server[c].response, "test_cases") = server[c].testCases
      /\ server[c].testCases = generateTestCases(server[c].normalizedInput)
      /\ Get(server[c].response, "validation") = server[c].validation
      /\ Get(Get(server[c].response, "summary"), "total_cases")
           = NumV(FlatLength(server[c].testCases))
      /\ HasKey(Get(server[c].response, "summary"), "by_section")
      /\ Get(Get(server[c].response, "excel_export"), "success") = BoolV(FALSE)
      /\ Get(Get(server[c].response, "excel_export"), "error").k = "string"

\* the write of the spreadsheet has been refused and the call has returned
C17_Witness ==
  \E c \in CallIds :
    /\ ExportFailed(c)
    /\ files = NoFiles
    /\ Get(Get(server[c].response, "test_cases"), "positive").k = "array"

\* the path the export of call c is to use: excel_path when it is given
\* (and not empty), else the default
ExpectedPath(c) ==
  IF Truthy(Get(server[c].args, "excel_path"))
  THEN Get(server[c].args, "excel_path")
  ELSE StrV("./test-cases-auto.xlsx")

\* C18: in generate_test_cases (once steps 1 to 3 are through) the export
\* step runs exactly when auto_export_excel is not false, absent included,
\* on ./test-cases-auto.xlsx unless excel_path is given; it runs only after
\* validation, whatever its outcome; when auto_export_excel is false no
\* file is written, excel_export is null and auto_export_enabled is false.
C18_ExportWhenNotFalse ==
  \A c \in CallIds :
    /\ (server[c].name = "generate_test_cases" /\ ExportRan(c)) =>
         server[c].validation.k = "object"
    /\ Pipelined(c) =>
         IF Get(server[c].args, "auto_export_excel") # BoolV(FALSE)
         THEN /\ ExportRan(c)
              /\ server[c].excelPath = ExpectedPath(c)
              /\ server[c].pc = "stat" => files[ExpectedPath(c).v] = server[c].excelData
              /\ Returned(c) =>
                   /\ Get(server[c].response, "excel_export") = server[c].excelExport
                   /\ Get(server[c].response, "auto_export_enabled") = BoolV(TRUE)
         ELSE /\ ~ExportRan(c)
              /\ files = NoFiles
              /\ Returned(c)
              /\ Get(server[c].response, "excel_export") = NullV
              /\ Get(server[c].response, "auto_export_enabled") = BoolV(FALSE)

\* a call without auto_export_excel and excel_path has written the default
\* file after a validation that failed
C18_Witness ==
  \E c \in CallIds :
    /\ Pipelined(c)
    /\ ~HasKey(server[c].args, "auto_export_excel")
    /\ ~HasKey(server[c].args, "excel_path")
    /\ server[c].pc = "stat"
    /\ "./test-cases-auto.xlsx" \in DOMAIN files
    /\ Get(server[c].validation, "isValid") = BoolV(FALSE)

\* the cases the export of a set is to list, each with the name its
\* section is written with: the four sections in order, the cases of each
\* in their order, nothing for a section that is absent or not an array
ListedCases(set) ==
  Flatten([i \in 1..4 |->
             IF Get(set, <<"positive", "negative", "boundary", "edge">>[i]).k = "array"
             THEN [j \in 1..Len(Get(set, <<"positive", "negative", "boundary",
                                           "edge">>[i]).v) |->
                     <<<<"Positive", "Negative", "Boundary", "Edge">>[i],
                       Get(set, <<"positive", "negative", "boundary",
                                  "edge">>[i]).v[j]>>]
             ELSE <<>>])

\* call c has exported a set and reported success
Exported(c) ==
  /\ Returned(c)
  /\ Get(server[c].excelExport, "success") = BoolV(TRUE)

\* C19: exportToExcel builds one header row followed by exactly one row per
\* case, the sections in the order positive, negative, boundary, edge and
\* the cases of a section in their order; absent or non-array sections give
\* no rows; the reported total_cases is the number of data rows.
C19_OneRowPerCase ==
  \A c \in CallIds :
    Exported(c) =>
      /\ Len(server[c].excelData.v) = 1 + Len(ListedCases(server[c].testCases))
      /\ server[c].excelData.v[1].v[1] = StrV("Test Case ID")
      /\ Len(server[c].excelData.v[1].v) = 9
      /\ \A n \in 1..Len(ListedCases(server[c].testCases)) :
           /\ server[c].excelData.v[n + 1].v[9]
                = StrV(ListedCases(server[c].testCases)[n][1])
           /\ server[c].excelData.v[n + 1].v[1]
                = Or(Get(ListedCases(server[c].testCases)[n][2], "id"), StrV(""))
           /\ server[c].excelData.v[n + 1].v[2]
                = Or(Get(ListedCases(server[c].testCases)[n][2], "title"), StrV(""))
      /\ Get(server[c].excelExport, "total_cases")
           = NumV(Len(server[c].excelData.v) - 1)
      /\ files[server[c].excelPath.v] = server[c].excelData

\* a set whose edge section is not an array and which has a fifth section
\* has been exported: five data rows
C19_Witness ==
  \E c \in CallIds :
    /\ Exported(c)
    /\ server[c].name = "export_to_excel"
    /\ Get(server[c].testCases, "edge") = StrV("none")
    /\ HasKey(server[c].testCases, "extra")
    /\ Get(server[c].excelExport, "total_cases") = NumV(5)

\* call c is generate_automation_tests with the default configuration on a
\* test-case set: an object whose section elements are objects with a
\* string title
AutomationByDefault(c) ==
  /\ Returned(c)
  /\ server[c].name = "generate_automation_tests"
  /\ server[c].args.k = "object"
  /\ Get(server[c].args, "framework") \in {UndefV, StrV("playwright")}
  /\ Get(server[c].args, "language") \in {UndefV, StrV("javascript")}
  /\ server[c].testCases.k = "object"
  /\ \A i \in 1..Len(exportSections) :
       Get(server[c].testCases, exportSections[i]).k = "array" =>
         \A j \in 1..Len(Get(server[c].testCases, exportSections[i]).v) :
           /\ Get(server[c].testCases, exportSections[i]).v[j].k = "object"
           /\ Get(Get(server[c].testCases, exportSections[i]).v[j], "title").k
                = "string"

\* C20: generateAutomationTests with the default (playwright, javascript)
\* configuration completes without error and returns, for each section
\* present as an array, one code snippet per case in the same order, with
\* a setup snippet and the dependency list ['@playwright/test'].
C20_AutomationSnippets ==
  \A c \in CallIds :
    AutomationByDefault(c) =>
      /\ server[c].result.k = "object"
      /\ Get(server[c].response, "success") = BoolV(TRUE)
      /\ \A i \in 1..Len(exportSections) :
           Get(server[c].testCases, exportSections[i]).k = "array" =>
             /\ Get(Get(server[c].result, "tests"), exportSections[i]).k = "array"
             /\ Len(Get(Get(server[c].result, "tests"), exportSections[i]).v)
                  = Len(Get(server[c].testCases, exportSections[i]).v)
      /\ Get(server[c].result, "setup").k = "string"
      /\ Get(server[c].result, "setup").v # ""
      /\ Get(server[c].result, "dependencies") = ArrV(<<StrV("@playwright/test")>>)

-----------------------------------------------------------------------------
(* Claims on the generated sets *)

\* all cases of the generated set, each with the name of its section
AllCases(c) ==
  Flatten([i \in 1..Len(requiredSections) |->
             [j \in 1..Len(Section(c, requiredSections[i])) |->
                <<requiredSections[i], Section(c, requiredSections[i])[j]>>]])

\* C23: in every set produced by one generation run all case ids are
\* pairwise distinct and start with the run's base id, each case's type is
\* the name of its section, and each priority is High, Medium or Low.
C23_IdsTypesPriorities ==
  \A c \in CallIds :
    Succeeded(c) =>
      /\ \A m \in 1..Len(AllCases(c)) : \A n \in 1..Len(AllCases(c)) :
           m # n => Get(AllCases(c)[m][2], "id") # Get(AllCases(c)[n][2], "id")
      /\ \A m \in 1..Len(AllCases(c)) :
           /\ Get(AllCases(c)[m][2], "id").k = "string"
           /\ StartsWith(Get(AllCases(c)[m][2], "id").v, calls[c].baseId.v)
           /\ Get(AllCases(c)[m][2], "type") = StrV(AllCases(c)[m][1])
           /\ Get(AllCases(c)[m][2], "priority")
                \in {StrV("High"), StrV("Medium"), StrV("Low")}

\* an api run has produced seven cases, the last of them an edge case
C23_Witness ==
  \E c \in CallIds :
    /\ Succeeded(c)
    /\ Len(AllCases(c)) = 7
    /\ Get(AllCases(c)[7][2], "type") = StrV("edge")

\* the input of call c was classified by its fields, not passed through
\* with the tag it came with
Classified(c) ==
  /\ Normalized(c)
  /\ ~(InputOf(c).k = "object" /\ Truthy(Get(InputOf(c), "type")))

\* C25: every record that normalizeInput classifies as user_story or
\* raw_text has a content field that is a string, whatever the shape of the
\* parsed input.
C25_ContentIsString ==
  \A c \in CallIds :
    (/\ Classified(c)
     /\ TypeTag(c).k = "string" /\ TypeTag(c).v \in {"user_story", "raw_text"}) =>
      Get(calls[c].normalizedInput, "content").k = "string"

\* the word of the list that comes first among those the text contains,
\* letter case aside; the default when it contains none
FirstListed(words, text, default) ==
  IF {i \in 1..Len(words) : Includes(ToLowerCase(text), words[i])} = {}
  THEN default
  ELSE words[CHOOSE i \in 1..Len(words) :
               /\ Includes(ToLowerCase(text), words[i])
               /\ \A j \in 1..Len(words) :
                    Includes(ToLowerCase(text), words[j]) => i <= j]

\* C26: extractMainAction gives the keyword that comes first in (login,
\* register, create, update, delete, submit, save, search, view, access)
\* among those occurring in the content, letter case and position in the
\* text aside, and 'perform action' when none occurs; extractMainFeature
\* likewise over (authentication, authorization, validation, processing,
\* display, storage, communication) with default 'feature'. The extracted
\* word is read off the title of the positive case.
C26_FirstKeywordInListOrder ==
  \A c \in CallIds :
    NarrativeRecord(c) =>
      Get(Section(c, "positive")[1], "title") =
        IF IsStr(TypeTag(c), "user_story")
        THEN StrV("Happy path - " \o
                  FirstListed(<<"login", "register", "create", "update", "delete",
                                "submit", "save", "search", "view", "access">>,
                              Get(calls[c].normalizedInput, "content").v,
                              "perform action"))
        ELSE StrV("Basic functionality - " \o
                  FirstListed(<<"authentication", "authorization", "validation",
                                "processing", "display", "storage",
                                "communication">>,
                              Get(calls[c].normalizedInput, "content").v,
                              "feature"))

\* a story in which View stands before Create has given create
C26_Witness ==
  \E c \in CallIds :
    /\ NarrativeRecord(c)
    /\ Get(calls[c].normalizedInput, "content")
         = StrV("View reports and Create orders")
    /\ Get(Section(c, "positive")[1], "title") = StrV("Happy path - create")

\* C27: for every api request edge[0].test_data has exactly the keys of the
\* request, every value null; edge[1].test_data has exactly the keys of the
\* request, every string value replaced by the special-character payload
\* and every other value unchanged.
C27_EdgeData ==
  \A c \in CallIds :
    ApiGenerated(c) =>
      /\ TestDataOf(c, "edge", 1).k = "object"
      /\ TestDataOf(c, "edge", 2).k = "object"
      /\ Len(TestDataOf(c, "edge", 1).v) = Len(Entries(RequestOf(c)))
      /\ Len(TestDataOf(c, "edge", 2).v) = Len(Entries(RequestOf(c)))
      /\ \A i \in 1..Len(Entries(RequestOf(c))) :
           /\ TestDataOf(c, "edge", 1).v[i] = <<Entries(RequestOf(c))[i][1], NullV>>
           /\ TestDataOf(c, "edge", 2).v[i] =
                <<Entries(RequestOf(c))[i][1],
                  IF Entries(RequestOf(c))[i][2].k = "string"
                  THEN StrV("!@#$%^&*()_+-=[]{}|;:,.<>?")
                  ELSE Entries(RequestOf(c))[i][2]>>

\* an api call whose request has string, number, boolean, null, object and
\* array fields has returned its two edge cases
C27_Witness ==
  \E c \in CallIds :
    /\ ApiGenerated(c)
    /\ RequestOf(c) = MixedRequest
    /\ Len(TestDataOf(c, "edge", 2).v) = 6

-----------------------------------------------------------------------------
(* Claims on validateOutput: the rules and the errors *)

\* the required sections of the validated set that break rule 1
Rule1Errors(c) ==
  {"Missing or invalid section: " \o requiredSections[i] :
     i \in {n \in 1..Len(requiredSections) :
              \/ ~HasKey(calls[c].testCases, requiredSections[n])
              \/ Get(calls[c].testCases, requiredSections[n]).k # "array"}}

\* the required sections of the validated set that break rule 2
Rule2Errors(c) ==
  {"Section " \o requiredSections[i] \o " has less than 3 test cases" :
     i \in {n \in 1..Len(requiredSections) :
              /\ Get(calls[c].testCases, requiredSections[n]).k = "array"
              /\ Len(Get(calls[c].testCases, requiredSections[n]).v) < 3}}

\* the cases of the sections named in names that break rule 3, per field
Rule3Errors(c, names) ==
  UNION {UNION {{"Section " \o CaseSections(c)[s][1] \o ", case "
                   \o NumToStr(j) \o ": Missing field " \o f :
                 f \in {g \in FieldNames : ~HasKey(CaseSections(c)[s][2].v[j], g)}} :
                j \in 1..Len(CaseSections(c)[s][2].v)} :
         s \in {n \in 1..Len(CaseSections(c)) : CaseSections(c)[n][1] \in names}}

\* the steps of a case are absent, falsy or an array of length 0
NoSteps(case) ==
  \/ ~HasKey(case, "steps")
  \/ ~Truthy(Get(case, "steps"))
  \/ Get(case, "steps").k = "array" /\ Len(Get(case, "steps").v) = 0

\* the cases of the sections named in names that break rule 4
Rule4Errors(c, names) ==
  UNION {{"Section " \o CaseSections(c)[s][1] \o ", case " \o NumToStr(j)
            \o ": Steps array is empty" :
          j \in {m \in 1..Len(CaseSections(c)[s][2].v) :
                   NoSteps(CaseSections(c)[s][2].v[m])}} :
         s \in {n \in 1..Len(CaseSections(c)) : CaseSections(c)[n][1] \in names}}

\* the names of the four required sections
RequiredNames == {requiredSections[i] : i \in 1..Len(requiredSections)}

\* the names of all array-valued entries of the validated set
PresentNames(c) == {CaseSections(c)[s][1] : s \in 1..Len(CaseSections(c))}

\* the texts listed in the errors of the validation of call c
ErrorTexts(c) ==
  {Get(calls[c].validation, "errors").v[i].v :
     i \in 1..Len(Get(calls[c].validation, "errors").v)}

-----------------------------------------------------------------------------
(* Claims on the requirement files *)

\* call c is a read_requirement_file call that has returned
FileRead(c) == Returned(c) /\ server[c].name = "read_requirement_file"

\* the path call c was given, a string, resolved against the working
\* directory
PathOf(c) == resolvePath(Get(server[c].args, "file_path").v)

\* call c was given a path as a string
PathGiven(c) ==
  /\ server[c].args.k = "object"
  /\ Get(server[c].args, "file_path").k = "string"

\* the extensions of the supported requirement formats
SupportedExtensions ==
  {".md", ".markdown", ".txt", ".text", ".json", ".yml", ".yaml", ".doc",
   ".docx", ".pdf"}

\* the path of call c names a readable regular file of a supported format
ReadableSupported(c) ==
  /\ PathGiven(c)
  /\ PathOf(c) \in DOMAIN Disk
  /\ Disk[PathOf(c)].kind = "file"
  /\ Disk[PathOf(c)].readable
  /\ ToLowerCase(ExtName(PathOf(c))) \in SupportedExtensions

\* C21: readRequirementFile never throws; it returns {success: false,
\* error} when the path does not exist, when it is not a regular file and
\* when the extension is not one of the supported formats; it returns
\* success = true only for a readable file of a supported format.
C21_ReadFailsOnUnsupported ==
  \A c \in CallIds :
    (FileRead(c) /\ server[c].args.k = "object") =>
      /\ server[c].fileResult.k = "object"
      /\ Get(server[c].fileResult, "success") = BoolV(ReadableSupported(c))
      /\ ~ReadableSupported(c) =>
           Get(server[c].fileResult, "error").k = "string"

-----------------------------------------------------------------------------
(* Claims on pre-tagged inputs *)

\* the input of the server call c
ServerInputOf(c) == Get(server[c].args, "input")

\* call c is a generate_test_cases call of the server that has returned and
\* whose input came with a type tag
PreTagged(c) ==
  /\ Returned(c)
  /\ server[c].name = "generate_test_cases"
  /\ server[c].args.k = "object"
  /\ ServerInputOf(c).k = "object"
  /\ Truthy(Get(ServerInputOf(c), "type"))

\* the tag of the input is none of the three variants
UnknownTag(input) ==
  Get(input, "type") \notin {StrV("api"), StrV("user_story"), StrV("raw_text")}

\* the fields of the variant the tag names are missing or not strings
IllFormedVariant(input) ==
  \/ /\ Get(input, "type") = StrV("api")
     /\ \/ Get(input, "endpoint").k # "string"
        \/ Get(input, "method").k # "string"
  \/ /\ Get(input, "type") \in {StrV("user_story"), StrV("raw_text")}
     /\ Get(input, "content").k # "string"

\* C28: when generate_test_cases receives a pre-tagged object whose type is
\* none of api, user_story, raw_text, or whose variant fields are missing or
\* ill-typed, the handler does not throw: it returns {success: false, error}
\* (for an unknown tag the message names the offending type), and neither
\* validation nor spreadsheet export is performed for that call.
C28_IllFormedTaggedFails ==
  \A c \in CallIds :
    (PreTagged(c)
     /\ (UnknownTag(ServerInputOf(c)) \/ IllFormedVariant(ServerInputOf(c)))) =>
      /\ server[c].response.k = "object"
      /\ Get(server[c].response, "success") = BoolV(FALSE)
      /\ Get(server[c].response, "error").k = "string"
      /\ UnknownTag(ServerInputOf(c)) =>
           Includes(Get(server[c].response, "error").v,
                    ToStringJS(Get(ServerInputOf(c), "type")))
      /\ server[c].validation.k = "undefined"
      /\ ~ExportRan(c)
      /\ files = NoFiles

-----------------------------------------------------------------------------
(* Claims on two invocations of the server *)

\* call c is a generate_test_cases_from_file call that has returned and
\* whose file was read
FromFile(c) ==
  /\ Returned(c)
  /\ server[c].name = "generate_test_cases_from_file"
  /\ Get(server[c].fileResult, "success") = BoolV(TRUE)

\* call d is a generate_test_cases call that has returned and whose input
\* was the text of the file call c has read
SameText(c, d) ==
  /\ Returned(d)
  /\ server[d].name = "generate_test_cases"
  /\ ServerInputOf(d) = Get(server[c].fileResult, "content")

\* C22: generate_test_cases_from_file on a readable file with text content
\* C returns the same input_type, test_cases, validation and summary as
\* generate_test_cases called with input C; the extension and the detected
\* type of the file do not influence the classification.
C22_FromFileSameAsText ==
  \A c \in CallIds : \A d \in CallIds :
    (FromFile(c) /\ SameText(c, d)) =>
      /\ server[c].normalizedInput = server[d].normalizedInput
      /\ \A field \in {"success", "input_type", "test_cases", "validation",
                       "summary"} :
           Get(server[c].response, field) = Get(server[d].response, field)

\* a file of an unlisted extension holding the API text and a direct call
\* with that text have both returned api cases
C22_Witness ==
  \E c \in CallIds : \E d \in CallIds :
    /\ FromFile(c) /\ SameText(c, d)
    /\ Get(server[c].fileResult, "extension") = StrV(".xyz")
    /\ Get(server[c].response, "input_type") = StrV("api")
    /\ Get(server[d].response, "input_type") = StrV("api")

\* C30: when two invocations that export to the same output path are in
\* flight at once, the file_size and total_cases each one reports describe
\* the spreadsheet this same invocation wrote.
C30_OwnFileSize ==
  \A c \in CallIds :
    Exported(c) =>
      /\ Get(server[c].excelExport, "total_cases")
           = NumV(Len(server[c].excelData.v) - 1)
      /\ Get(server[c].excelExport, "file_size")
           = NumV(WorkbookSize(server[c].excelData.v))

====
